---- MODULE Spec2Model ----
\* A model of the tlang compilation pipeline (priyangkarghosh/tlang):
\*   - DependencyManager  (src/src/tlang/dependency_manager.py)
\*   - BindingRegistry    (src/src/tlang/binding_registry.py)
\*   - ShaderProcessor / FunctionManager / AttributeManager
\* Each component has its own specification over its own group of
\* variables; the variables of the other components stay at their idle value.
EXTENDS Integers, Sequences, FiniteSets, TLC

\* ------------------------------------------------------------------
\* Shared helpers
\* ------------------------------------------------------------------
None ==
    "None"

Min(S) ==
    CHOOSE m \in S : \A n \in S : m <= n

Range(s) ==
    {s[i] : i \in 1..Len(s)}

\* ------------------------------------------------------------------
\* State: one group of variables per component
\* ------------------------------------------------------------------
\* DependencyManager and the traversal of resolve_dependencies
VARIABLES dps_graph, d_pc, d_name, d_ret, d_visited, d_tree, d_stack, d_err,
          d_tmpl

depVars ==
    <<dps_graph, d_pc, d_name, d_ret, d_visited, d_tree, d_stack, d_err,
      d_tmpl>>

\* BindingRegistry.inject_bindings
VARIABLES b_modules, max_bindings, free_bindings, canon, usage, seen,
          billboard, binded_modules, local_free, b_pc, b_i, b_j

bindVars ==
    <<b_modules, max_bindings, free_bindings, canon, usage, seen,
      billboard, binded_modules, local_free, b_pc, b_i, b_j>>

\* ShaderProcessor: the file, its line mapping, its functions, the shared
\* compiler state and the position of __init__ in its processing steps
VARIABLES src, src_map, funcs, search_pos, f_pc, f_err, cur_func, cur_i,
          glob_attrs, cur_attr, programs, dps, ext, module, dispatched, unclosed,
          units

fileVars ==
    <<src, src_map, funcs, search_pos, f_pc, f_err, cur_func, cur_i,
      glob_attrs, cur_attr, programs, dps, ext, module, dispatched, unclosed,
      units>>

\* BindingRegistry.remove_unused_buffers: the text it is given, the
\* declarations it decided to remove, the text it returns
VARIABLES buf_src, to_remove, buf_out, buf_pc

bufVars ==
    <<buf_src, to_remove, buf_out, buf_pc>>

\* ShaderManager.__init__: the files of the directory (their include sets,
\* their own extension entries, which of them cannot be processed), the
\* processors and registered modules, the built commons and the shaders
VARIABLES m_dps, m_own, m_fatal, processors, m_modules, commons, shaders,
          m_pc, m_i

mgrVars ==
    <<m_dps, m_own, m_fatal, processors, m_modules, commons, shaders,
      m_pc, m_i>>

\* Shader._build, program linking: the assembled stage sources, the
\* declared programs, which revision of _build runs, the linked programs
\* and the programs whose failure was only logged
VARIABLES l_stages, l_programs, l_variant, linked, l_logged, l_pc, l_k

linkVars ==
    <<l_stages, l_programs, l_variant, linked, l_logged, l_pc, l_k>>

\* FunctionList.find_next called on a list of functions and a line
VARIABLES fn_items, fn_line, fn_found, fn_pc

findVars ==
    <<fn_items, fn_line, fn_found, fn_pc>>

\* BufferPool: the free pool, the in-use tracking, the size of every buffer
\* created so far, the buffers the caller holds, and the last call
VARIABLES p_pool, p_untagged, p_tagged, p_tag_map, p_size, p_held, p_call

poolVars ==
    <<p_pool, p_untagged, p_tagged, p_tag_map, p_size, p_held, p_call>>

\* Shader.build_map: the mapping, the keys still to be serialized, the
\* previous index and origin, the parts emitted so far
VARIABLES bm_map, bm_todo, prev_index, prev_vctx, parts, bm_pc

mapVars ==
    <<bm_map, bm_todo, prev_index, prev_vctx, parts, bm_pc>>

\* what the steps of one component leave alone
DepFrame ==
    UNCHANGED <<bindVars, fileVars, bufVars, mgrVars, linkVars, findVars, poolVars, mapVars>>

BindFrame ==
    UNCHANGED <<depVars, fileVars, bufVars, mgrVars, linkVars, findVars, poolVars, mapVars>>

FileFrame ==
    UNCHANGED <<depVars, bindVars, bufVars, mgrVars, linkVars, findVars, poolVars, mapVars>>

BufFrame ==
    UNCHANGED <<depVars, bindVars, fileVars, mgrVars, linkVars, findVars, poolVars, mapVars>>

MgrFrame ==
    UNCHANGED <<depVars, bindVars, fileVars, bufVars, linkVars, findVars, poolVars, mapVars>>

LinkFrame ==
    UNCHANGED <<depVars, bindVars, fileVars, bufVars, mgrVars, findVars, poolVars, mapVars>>

FindFrame ==
    UNCHANGED <<depVars, bindVars, fileVars, bufVars, mgrVars, linkVars, poolVars, mapVars>>

PoolFrame ==
    UNCHANGED <<depVars, bindVars, fileVars, bufVars, mgrVars, linkVars, findVars, mapVars>>

MapFrame ==
    UNCHANGED <<depVars, bindVars, fileVars, bufVars, mgrVars, linkVars, findVars, poolVars>>

\* ------------------------------------------------------------------
\* DependencyManager
\* ------------------------------------------------------------------
\* number of module names that may be registered
NumModules ==
    3

\* largest number of [include(...)] names a registered module declares
MaxDeps ==
    2

ModuleNames ==
    1..NumModules

DepSets ==
    {s \in SUBSET ModuleNames : Cardinality(s) <= MaxDeps}

\* DependencyManager.modules: the registered names (keys of dps_graph too)
modules ==
    DOMAIN dps_graph

NoErr ==
    [kind |-> "none", node |-> 0]

DepInit ==
    /\ dps_graph = [n \in {} |-> {}]
    /\ d_pc = "idle"
    /\ d_name = 0
    /\ d_ret = <<>>
    /\ d_visited = {}
    /\ d_tree = {}
    /\ d_stack = <<>>
    /\ d_err = NoErr
    /\ d_tmpl = <<>>

\* register(sp): refuses a name that is already registered
Register(n, deps) ==
    /\ d_pc = "idle"
    /\ n \notin modules
    /\ dps_graph' = dps_graph @@ (n :> deps)
    /\ UNCHANGED <<d_pc, d_name, d_ret, d_visited, d_tree, d_stack, d_err, d_tmpl>>
    /\ DepFrame

\* dfs: "stop recursing if this node has already been visited"
DfsSkipNever(node, visited) ==
    FALSE

\* a single "seen" marker instead of the on-stack / resolved distinction
DfsSkipOnStack(node, visited) ==
    node \in visited \cup d_tree

DfsSkip(node, visited) ==
    node \in visited

\* dfs: "if this node has already been added to the link tree, its a circular import"
DfsOnTree(node, tree) ==
    node \in tree

\* _build(name) -> resolve_dependencies(name) -> dfs(name), first call
Build(n) ==
    /\ d_pc \in {"idle", "done"}
    /\ n \in modules
    /\ d_name' = n
    /\ d_ret' = <<>>
    /\ d_visited' = {}
    /\ d_tree' = {n}
    /\ d_stack' = <<[node |-> n, todo |-> dps_graph[n]]>>
    /\ d_pc' = "dfs"
    /\ d_err' = NoErr
    /\ d_tmpl' = <<>>
    /\ UNCHANGED dps_graph
    /\ DepFrame

Top ==
    d_stack[Len(d_stack)]

PopTodo(dep) ==
    [d_stack EXCEPT ![Len(d_stack)].todo = @ \ {dep}]

\* the for loop takes the next dep of the node on top of the stack; the
\* iteration order of a Python set of str is not fixed, so any dep may be next
MissingErrorAtFile(dep) ==
    [kind |-> "missing", node |-> d_name]

\* ValueError(f"Missing dependency: '{dep}'")
MissingError(dep) ==
    [kind |-> "missing", node |-> dep]

DfsMissing(dep) ==
    /\ d_pc = "dfs"
    /\ dep \in Top.todo
    /\ dep \notin modules
    /\ d_pc' = "error"
    /\ d_err' = MissingError(dep)
    /\ UNCHANGED <<dps_graph, d_name, d_ret, d_visited, d_tree, d_stack, d_tmpl>>
    /\ DepFrame

DfsVisited(dep) ==
    /\ d_pc = "dfs"
    /\ dep \in Top.todo
    /\ dep \in modules
    /\ DfsSkip(dep, d_visited)
    /\ d_stack' = PopTodo(dep)
    /\ UNCHANGED <<dps_graph, d_pc, d_name, d_ret, d_visited, d_tree, d_err, d_tmpl>>
    /\ DepFrame

DfsCycle(dep) ==
    /\ d_pc = "dfs"
    /\ dep \in Top.todo
    /\ dep \in modules
    /\ ~DfsSkip(dep, d_visited)
    /\ DfsOnTree(dep, d_tree)
    /\ d_pc' = "error"
    /\ d_err' = [kind |-> "circular", node |-> dep]
    /\ UNCHANGED <<dps_graph, d_name, d_ret, d_visited, d_tree, d_stack, d_tmpl>>
    /\ DepFrame

DfsDescend(dep) ==
    /\ d_pc = "dfs"
    /\ dep \in Top.todo
    /\ dep \in modules
    /\ ~DfsSkip(dep, d_visited)
    /\ ~DfsOnTree(dep, d_tree)
    /\ d_tree' = d_tree \cup {dep}
    /\ d_stack' = Append(PopTodo(dep), [node |-> dep, todo |-> dps_graph[dep]])
    /\ UNCHANGED <<dps_graph, d_pc, d_name, d_ret, d_visited, d_err, d_tmpl>>
    /\ DepFrame

\* f"{{% include '{dep}' %}}"
IncludeDirective(dep) ==
    [kind |-> "include", name |-> dep]

\* the code of a module that is not a directive
ModuleBody(name) ==
    [kind |-> "body", name |-> name]

\* the [include(...)] attribute line of a module after attribute processing:
\* AttributeHandlers.dependency returns one include directive per argument
\* and the caller writes them into the line of the attribute
RECURSIVE DependencyHandlerOutput(_)
DependencyHandlerOutput(deps) ==
    IF deps = {} THEN <<>>
    ELSE <<IncludeDirective(Min(deps))>> \o DependencyHandlerOutput(deps \ {Min(deps)})

\* self.modules[name] = Shader.build_map(sp.module): the attribute line,
\* then the code of the module
ModuleText(name) ==
    DependencyHandlerOutput(dps_graph[name]) \o <<ModuleBody(name)>>

\* includes = [... for dep in deps if dep != name]
RECURSIVE Includes(_, _)
Includes(deps, name) ==
    IF deps = <<>> THEN <<>>
    ELSE (IF Head(deps) # name THEN <<IncludeDirective(Head(deps))>> ELSE <<>>)
            \o Includes(Tail(deps), name)

\* '\n'.join(includes + [self.modules[name]]), handed to from_string
TemplateText(name, deps) ==
    Includes(deps, name) \o ModuleText(name)

\* end of the for loop of one dfs call: "update structures" and return; the
\* return of the first call ends resolve_dependencies and _build makes the
\* template text
DfsReturn ==
    /\ d_pc = "dfs"
    /\ Top.todo = {}
    /\ d_tree' = d_tree \ {Top.node}
    /\ d_visited' = d_visited \cup {Top.node}
    /\ d_ret' = Append(d_ret, Top.node)
    /\ d_stack' = SubSeq(d_stack, 1, Len(d_stack) - 1)
    /\ d_pc' = IF Len(d_stack) = 1 THEN "done" ELSE "dfs"
    /\ d_tmpl' = IF Len(d_stack) = 1
                 THEN TemplateText(d_name, Append(d_ret, Top.node))
                 ELSE d_tmpl
    /\ UNCHANGED <<dps_graph, d_name, d_err>>
    /\ DepFrame

DepNext ==
    \/ \E n \in ModuleNames, deps \in DepSets : Register(n, deps)
    \/ \E n \in ModuleNames : Build(n)
    \/ \E dep \in ModuleNames : DfsMissing(dep)
    \/ \E dep \in ModuleNames : DfsVisited(dep)
    \/ \E dep \in ModuleNames : DfsCycle(dep)
    \/ \E dep \in ModuleNames : DfsDescend(dep)
    \/ DfsReturn

\* ------------------------------------------------------------------
\* BindingRegistry
\* ------------------------------------------------------------------
\* total number of buffer block declarations in the texts given
MaxBlocks ==
    3

\* largest GL_MAX_SHADER_STORAGE_BUFFER_BINDINGS the context reports
MaxBindingLimit ==
    2

BlockNames ==
    {"A", "B"}

\* str comparison of the block names, used by sorted()
NameRank ==
    [A |-> 1, B |-> 2]

\* the text between "layout(...)" and "buffer": nothing, or one qualifier
Qualifiers ==
    {"", "readonly"}

\* the layout arguments carry no "binding = N"
NoBinding ==
    -1

ExplicitBindings ==
    {0, 1}

\* one "layout(<args>) <qual> buffer <name> {" declaration of a text
BlockDecls ==
    [name : BlockNames, qual : Qualifiers, bind : ExplicitBindings \cup {NoBinding}]

BoundedSeq(S, n) ==
    UNION {[1..k -> S] : k \in 0..n}

\* LAYOUT_PATTERN: "(?:readonly|coherent|volatile|restrict\s+)*buffer" wants
\* "buffer" right after the qualifier, so only "restrict " (which carries its
\* own \s+) or no qualifier at all lets the pattern match the declaration
LayoutPatternMatchesAll(qual) ==
    TRUE

LayoutPatternMatches(qual) ==
    qual \in {"", "restrict"}

\* inject_pattern: "((?:readonly|coherent|volatile|restrict)\s+)?buffer"
InjectPatternMatches(qual) ==
    qual \in {"", "readonly", "coherent", "volatile", "restrict"}

\* BINDING_PATTERN.search(layout_args)
HasBinding(decl) ==
    decl.bind # NoBinding

\* free_bindings.index(True): the lowest index that is still free
FirstFree(free) ==
    CHOOSE k \in DOMAIN free : free[k] /\ \A l \in DOMAIN free : free[l] => k <= l

\* any(free_bindings)
AnyFree(free) ==
    \E k \in DOMAIN free : free[k]

AllFree ==
    [k \in 0..(max_bindings - 1) |-> TRUE]

\* position of the next declaration at or after (i, j), or past the last text
RECURSIVE Normalize(_, _)
Normalize(i, j) ==
    IF i > Len(b_modules) THEN <<i, 1>>
    ELSE IF j <= Len(b_modules[i]) THEN <<i, j>>
    ELSE Normalize(i + 1, 1)

AtEnd ==
    b_i > Len(b_modules)

CurDecl ==
    b_modules[b_i][b_j]

BindInit ==
    /\ \E s \in BoundedSeq(BlockDecls, MaxBlocks) : \E k \in 0..Len(s) :
          b_modules = <<SubSeq(s, 1, k), SubSeq(s, k + 1, Len(s))>>
    /\ max_bindings \in 1..MaxBindingLimit
    /\ free_bindings = AllFree
    /\ canon = [n \in {} |-> 0]
    /\ usage = [n \in {} |-> 0]
    /\ seen = {}
    /\ billboard = <<>>
    /\ binded_modules = <<>>
    /\ local_free = <<>>
    /\ b_pc = "scan"
    /\ b_i = Normalize(1, 1)[1]
    /\ b_j = 1

\* cursor after the current declaration; seen is reset for a new text
Advance ==
    /\ b_i' = Normalize(b_i, b_j + 1)[1]
    /\ b_j' = Normalize(b_i, b_j + 1)[2]

\* one iteration of "for layout_args, block in LAYOUT_PATTERN.findall(src)"
\* (a declaration the pattern does not match is passed over)
ScanBlock ==
    /\ b_pc = "scan"
    /\ ~AtEnd
    /\ LET d == CurDecl
           newText == Normalize(b_i, b_j + 1)[1] # b_i
           seen1 == IF LayoutPatternMatches(d.qual) THEN seen \cup {d.name} ELSE seen
           usage1 == IF ~LayoutPatternMatches(d.qual) \/ d.name \in seen THEN usage
                     ELSE IF d.name \in DOMAIN usage
                          THEN [usage EXCEPT ![d.name] = @ + 1]
                          ELSE usage @@ (d.name :> 1)
       IN  /\ usage' = usage1
           /\ IF LayoutPatternMatches(d.qual) /\ HasBinding(d)
              THEN IF d.bind >= max_bindings
                   THEN /\ b_pc' = "error_limit"
                        /\ UNCHANGED <<canon, free_bindings, seen, b_i, b_j>>
                   ELSE IF d.name \in DOMAIN canon /\ canon[d.name] # d.bind
                   THEN /\ b_pc' = "error_conflict"
                        /\ UNCHANGED <<canon, free_bindings, seen, b_i, b_j>>
                   ELSE /\ canon' = IF d.name \in DOMAIN canon THEN canon
                                    ELSE canon @@ (d.name :> d.bind)
                        /\ free_bindings' = [free_bindings EXCEPT ![d.bind] = FALSE]
                        /\ seen' = IF newText THEN {} ELSE seen1
                        /\ Advance
                        /\ UNCHANGED b_pc
              ELSE /\ seen' = IF newText THEN {} ELSE seen1
                   /\ Advance
                   /\ UNCHANGED <<canon, free_bindings, b_pc>>
    /\ UNCHANGED <<b_modules, max_bindings, billboard, binded_modules, local_free>>
    /\ BindFrame

\* sorted(..., key=lambda b: (usage[b], b))
SortKeyLess(a, b) ==
    \/ usage[a] < usage[b]
    \/ usage[a] = usage[b] /\ NameRank[a] < NameRank[b]

RECURSIVE Sorted(_)
Sorted(S) ==
    IF S = {} THEN <<>>
    ELSE LET m == CHOOSE x \in S : \A y \in S \ {x} : SortKeyLess(x, y)
         IN  <<m>> \o Sorted(S \ {m})

\* billboard = sorted(b for b in usage if b not in canon)
BuildBillboard ==
    /\ b_pc = "scan"
    /\ AtEnd
    /\ billboard' = Sorted(DOMAIN usage \ DOMAIN canon)
    /\ b_pc' = "assign"
    /\ UNCHANGED <<b_modules, max_bindings, free_bindings, canon, usage, seen,
                  binded_modules, local_free, b_i, b_j>>
    /\ BindFrame

\* one iteration of "while billboard and any(free_bindings)": billboard.pop()
\* takes the last name
AssignBinding ==
    /\ b_pc = "assign"
    /\ billboard # <<>>
    /\ AnyFree(free_bindings)
    /\ LET b == billboard[Len(billboard)]
           bind == FirstFree(free_bindings)
       IN  /\ billboard' = SubSeq(billboard, 1, Len(billboard) - 1)
           /\ free_bindings' = [free_bindings EXCEPT ![bind] = FALSE]
           /\ canon' = canon @@ (b :> bind)
    /\ UNCHANGED <<b_modules, max_bindings, usage, seen, binded_modules,
                  local_free, b_pc, b_i, b_j>>
    /\ BindFrame

\* the while loop ends; "for name, src in modules.items()" starts with a
\* local_free that has every index free
StartPatch ==
    /\ b_pc = "assign"
    /\ billboard = <<>> \/ ~AnyFree(free_bindings)
    /\ b_pc' = IF Normalize(1, 1)[1] > Len(b_modules) THEN "done" ELSE "patch"
    /\ b_i' = Normalize(1, 1)[1]
    /\ b_j' = 1
    /\ local_free' = AllFree
    /\ binded_modules' = [i \in 1..Len(b_modules) |-> <<>>]
    /\ UNCHANGED <<b_modules, max_bindings, free_bindings, canon, usage, seen, billboard>>
    /\ BindFrame

\* replacer(match) for one declaration matched by inject_pattern
PatchBlock ==
    /\ b_pc = "patch"
    /\ ~AtEnd
    /\ LET d == CurDecl
           newText == Normalize(b_i, b_j + 1)[1] # b_i
           viaCanon == d.name \in DOMAIN canon /\ local_free[canon[d.name]]
           binding == IF viaCanon THEN canon[d.name] ELSE FirstFree(local_free)
       IN  IF ~InjectPatternMatches(d.qual) \/ HasBinding(d)
           THEN /\ binded_modules' = [binded_modules EXCEPT ![b_i] = Append(@, d)]
                /\ local_free' = IF newText THEN AllFree ELSE local_free
                /\ Advance
                /\ b_pc' = IF Normalize(b_i, b_j + 1)[1] > Len(b_modules)
                           THEN "done" ELSE "patch"
           ELSE IF ~viaCanon /\ ~AnyFree(local_free)
           THEN /\ b_pc' = "error_out_of_bindings"
                /\ UNCHANGED <<binded_modules, local_free, b_i, b_j>>
           ELSE /\ binded_modules' =
                      [binded_modules EXCEPT ![b_i] = Append(@, [d EXCEPT !.bind = binding])]
                /\ local_free' = IF newText THEN AllFree
                                 ELSE [local_free EXCEPT ![binding] = FALSE]
                /\ Advance
                /\ b_pc' = IF Normalize(b_i, b_j + 1)[1] > Len(b_modules)
                           THEN "done" ELSE "patch"
    /\ UNCHANGED <<b_modules, max_bindings, free_bindings, canon, usage, seen, billboard>>
    /\ BindFrame

BindNext ==
    \/ ScanBlock
    \/ BuildBillboard
    \/ AssignBinding
    \/ StartPatch
    \/ PatchBlock

\* the registry before it is given any texts
BindIdle ==
    /\ b_modules = <<>>
    /\ max_bindings = 0
    /\ free_bindings = <<>>
    /\ canon = <<>>
    /\ usage = <<>>
    /\ seen = {}
    /\ billboard = <<>>
    /\ binded_modules = <<>>
    /\ local_free = <<>>
    /\ b_pc = "idle"
    /\ b_i = 0
    /\ b_j = 0

\* the dependency manager before any module is registered
DepIdle ==
    DepInit

\* ------------------------------------------------------------------
\* ShaderProcessor.__init__, step 1: FunctionManager.extract_funcs
\* ------------------------------------------------------------------
\* A file is a sequence of lines and a line a sequence of tokens that ends
\* with its newline (splitlines(keepends=True)).  Tokens:
\*   "x"   code without braces and brackets (such as "uint a = 0;")
\*   "H"   a function header "void f() {" (it carries the opening brace)
\*   "{" "}" "[" "]" ","  the character itself
\*   "\n"  the newline
\*   anything else: the text of one attribute, as written in the source

\* number of lines of the file
MaxLines ==
    4

Code ==
    <<"x", "\n">>

Blank ==
    <<"\n">>

Hdr ==
    <<"H", "\n">>

Close ==
    <<"}", "\n">>

OneLiner ==
    <<"H", "x", "}", "\n">>

ShaderV ==
    <<"[", "shader('vert')", "]", "\n">>

BogusShaderC ==
    <<"[", "bogus", ",", "shader('compute')", "]", "x", "\n">>

ProgA ==
    <<"[", "program('main', vert='vs', frag='fs')", "]", "\n">>

OpenProgB ==
    <<"[", "program('main', vertex='v2')", ",", "\n">>

CloseUnroll ==
    <<"unroll", "]", "\n">>

\* two blocks on one line with code between them: "[unroll] x [bogus]"
TwoBlocks ==
    <<"[", "unroll", "]", "x", "[", "bogus", "]", "\n">>

\* the lines a file is made of
LineMenu ==
    {Code, Blank, Hdr, Close, OneLiner, ShaderV, BogusShaderC, ProgA,
     OpenProgB, CloseUnroll, TwoBlocks}

\* the lines of the files whose global attributes bind to functions
ShaderCNum ==
    <<"[", "shader('compute')", ",", "numthreads(64)", "]", "\n">>

NumXYZ ==
    <<"[", "numthreads(8, 4, 2)", "]", "\n">>

NumY ==
    <<"[", "numthreads(y=2)", "]", "\n">>

ShaderG ==
    <<"[", "shader('geom')", "]", "\n">>

GeomPoints ==
    <<"[", "geom(in='points')", "]", "\n">>

ResBlock ==
    <<"[", "resourceblock('in vec3 p', 'out vec4 c : LOC0')", "]", "\n">>

InclLib ==
    <<"[", "include(lib)", "]", "\n">>

ExtendX ==
    <<"[", "extend('GL_x')", "]", "\n">>

AttrLineMenu ==
    {Hdr, OneLiner, ShaderCNum, NumXYZ, NumY, ShaderG, GeomPoints, ResBlock,
     ProgA, InclLib, ExtendX}

MaxAttrLines ==
    4

NoFileErr ==
    "none"

\* ShaderProcessor.__init__ up to the call of extract_funcs: src_map holds
\* every line under its 1-based index
FileInitOf(sources) ==
    /\ src \in sources
    /\ src_map = [i \in 1..Len(src) |-> src[i]]
    /\ funcs = <<>>
    /\ search_pos = 1
    /\ f_pc = "extract"
    /\ f_err = NoFileErr
    /\ cur_func = 0
    /\ cur_i = 0
    /\ glob_attrs = <<>>
    /\ cur_attr = 0
    /\ programs = [n \in {} |-> 0]
    /\ dps = {}
    /\ ext = {[name |-> "GL_KHR_vulkan_glsl", mode |-> "require"]}
    /\ module = [i \in {} |-> <<>>]
    /\ dispatched = <<>>
    /\ unclosed = {}
    /\ units = <<>>

FileInit ==
    FileInitOf(BoundedSeq(LineMenu, MaxLines))

FileInitAttrs ==
    FileInitOf(BoundedSeq(AttrLineMenu, MaxAttrLines))

Restrict(f, S) ==
    [k \in S |-> f[k]]

\* FUNC_PATTERN "^\s*<ret> <name>(<params>) {": the header is the first
\* thing on its line
IsHeaderLine(l) ==
    src[l][1] = "H"

\* a line of white space only
IsBlankLine(l) ==
    src[l] = Blank

\* the line of the next header at or after line `from`, 0 if there is none.
\* search_pos is kept as the first line whose start is at or after the
\* character offset: '^' only matches at the start of a line
FindHeader(from) ==
    IF \E h \in from..Len(src) : IsHeaderLine(h)
    THEN Min({h \in from..Len(src) : IsHeaderLine(h)})
    ELSE 0

\* match.span()[0] as a line: "^\s*" also takes the blank lines in front of
\* the header, so the leftmost match starts at the first of them
MatchStart(from, h) ==
    Min({p \in from..h : \A l \in p..(h - 1) : IsBlankLine(l)})

\* match_brace: walks the text after the header, depth starts at 1; the
\* result is the line of the brace that brings the depth to 0, or 0 when the
\* end of the text is reached first (SyntaxError)
InitialDepth ==
    1

\* "if not brace_depth: return i"
BraceClosedBelow(depth) ==
    depth < 0

BraceClosed(depth) ==
    depth = 0

RECURSIVE MatchBrace(_, _, _)
MatchBrace(l, k, depth) ==
    IF l > Len(src) THEN 0
    ELSE IF k > Len(src[l]) THEN MatchBrace(l + 1, 1, depth)
    ELSE LET d == IF src[l][k] \in {"{", "H"} THEN depth + 1
                  ELSE IF src[l][k] = "}" THEN depth - 1
                  ELSE depth
         IN  IF BraceClosed(d) THEN l ELSE MatchBrace(l, k + 1, d)

\* src_map after "src_map.pop(index) for index in range(line_start, line_end + 1)"
KeepAll(map, lo, hi) ==
    map

PopRange(map, lo, hi) ==
    Restrict(map, DOMAIN map \ (lo..hi))

FunctionDef(line_start, line_end, line_body) ==
    [line_start |-> line_start, line_end |-> line_end, line_body |-> line_body,
     stage |-> None, attrs |-> <<>>, config |-> <<>>]

\* one iteration of the while loop that finds a header and its closing brace
ExtractFunc ==
    /\ f_pc = "extract"
    /\ FindHeader(search_pos) # 0
    /\ LET h == FindHeader(search_pos)
           line_start == MatchStart(search_pos, h)
           line_end == MatchBrace(h, 2, InitialDepth)
           line_body == Restrict(src_map, DOMAIN src_map \cap (line_start..line_end))
       IN  /\ line_end # 0
           /\ src_map' = PopRange(src_map, line_start, line_end)
           /\ funcs' = Append(funcs, FunctionDef(line_start, line_end, line_body))
           /\ search_pos' = line_end + 1
    /\ UNCHANGED <<src, f_pc, f_err, cur_func, cur_i, glob_attrs, cur_attr,
                  programs, dps, ext, module, dispatched, unclosed, units>>
    /\ FileFrame

\* match_brace raises SyntaxError("Unmatched brace in function")
ExtractUnmatched ==
    /\ f_pc = "extract"
    /\ FindHeader(search_pos) # 0
    /\ MatchBrace(FindHeader(search_pos), 2, InitialDepth) = 0
    /\ f_pc' = "error"
    /\ f_err' = "unmatched brace"
    /\ search_pos' = FindHeader(search_pos)
    /\ UNCHANGED <<src, src_map, funcs, cur_func, cur_i, glob_attrs, cur_attr,
                  programs, dps, ext, module, dispatched, unclosed, units>>
    /\ FileFrame

\* FUNC_PATTERN.search finds no further header: extract_funcs returns
ExtractDone ==
    /\ f_pc = "extract"
    /\ FindHeader(search_pos) = 0
    /\ f_pc' = "func_ctx"
    /\ cur_func' = 1
    /\ cur_i' = 1
    /\ UNCHANGED <<src, src_map, funcs, search_pos, f_err, glob_attrs, cur_attr,
                  programs, dps, ext, module, dispatched, unclosed, units>>
    /\ FileFrame

\* ------------------------------------------------------------------
\* ShaderProcessor.__init__, step 2: AttributeManager.process_attrs
\* ------------------------------------------------------------------
\* the attribute texts that occur in the lines of LineMenu
AttrTokens ==
    {"shader('vert')", "shader('compute')", "bogus",
     "program('main', vert='vs', frag='fs')", "program('main', vertex='v2')",
     "unroll",
     "shader('geom')", "numthreads(64)", "numthreads(8, 4, 2)", "numthreads(y=2)",
     "resourceblock('in vec3 p', 'out vec4 c : LOC0')", "geom(in='points')",
     "include(lib)", "extend('GL_x')"}

\* the Attribute that match_attr builds from three positional arguments:
\* the dataclass of src/attribute.py (name, args, kwargs).  The dataclass of
\* tlang/attribute.py has a fourth field raw_args that match_attr does not
\* pass; it belongs to a later revision of the manager.
Attribute(name, args, kwargs) ==
    [name |-> name, args |-> args, kwargs |-> kwargs]

\* match_attr: ATTR_PATTERN.fullmatch and parse_args, for each text of
\* AttrTokens; kwargs keeps the key=value pairs in the order parsed
match_attr(attr_str) ==
    CASE attr_str = "shader('vert')" -> Attribute("shader", <<"vert">>, <<>>)
      [] attr_str = "shader('compute')" -> Attribute("shader", <<"compute">>, <<>>)
      [] attr_str = "bogus" -> Attribute("bogus", <<>>, <<>>)
      [] attr_str = "program('main', vert='vs', frag='fs')" ->
            Attribute("program", <<"main">>, <<<<"vert", "vs">>, <<"frag", "fs">>>>)
      [] attr_str = "program('main', vertex='v2')" ->
            Attribute("program", <<"main">>, <<<<"vertex", "v2">>>>)
      [] attr_str = "unroll" -> Attribute("unroll", <<>>, <<>>)
      [] attr_str = "shader('geom')" -> Attribute("shader", <<"geom">>, <<>>)
      [] attr_str = "numthreads(64)" -> Attribute("numthreads", <<"64">>, <<>>)
      [] attr_str = "numthreads(8, 4, 2)" ->
            Attribute("numthreads", <<"8", "4", "2">>, <<>>)
      [] attr_str = "numthreads(y=2)" ->
            Attribute("numthreads", <<>>, <<<<"y", "2">>>>)
      [] attr_str = "resourceblock('in vec3 p', 'out vec4 c : LOC0')" ->
            Attribute("resourceblock", <<"in vec3 p", "out vec4 c : LOC0">>, <<>>)
      [] attr_str = "geom(in='points')" ->
            Attribute("geom", <<>>, <<<<"in", "points">>>>)
      [] attr_str = "include(lib)" -> Attribute("include", <<"lib">>, <<>>)
      [] attr_str = "extend('GL_x')" -> Attribute("extend", <<"GL_x">>, <<>>)

\* _SHADER_STAGE_ALIASES, in the order of the dict
SHADER_STAGE_ALIASES ==
    << <<"vert", "vert">>, <<"vertex", "vert">>,
       <<"frag", "frag">>, <<"fragment", "frag">>,
       <<"geom", "geom">>, <<"geometry", "geom">>,
       <<"comp", "comp">>, <<"compute", "comp">>,
       <<"tesc", "tesc">>, <<"tess_control", "tesc">>,
       <<"tese", "tese">>, <<"tess_eval", "tese">> >>

AliasTokens ==
    {SHADER_STAGE_ALIASES[k][1] : k \in 1..Len(SHADER_STAGE_ALIASES)}

\* ShaderStage.from_token for a token of the alias table
from_token(token) ==
    LET k == CHOOSE k \in 1..Len(SHADER_STAGE_ALIASES) : SHADER_STAGE_ALIASES[k][1] = token
    IN  SHADER_STAGE_ALIASES[k][2]

\* FUNC_CTX_ATTR_MAP: the text each function-context handler returns
FUNC_CTX_ATTR_MAP ==
    [unroll |-> "#pragma unroll", flatten |-> "#pragma flatten",
     branch |-> "#pragma branch", loop |-> "#pragma loop",
     fastopt |-> "#pragma optimize(on)", noopt |-> "#pragma optimize(off)"]

\* GLOB_CTX_ATTR_MAP, for the attribute names of AttrTokens: the handler of
\* a name, "none" when the name is not a key of the table
GLOB_CTX_ATTR_MAP(name) ==
    IF name = "shader" THEN "shader"
    ELSE IF name = "numthreads" THEN "numthreads"
    ELSE IF name = "program" THEN "program"
    ELSE IF name = "include" THEN "dependency"
    ELSE IF name \in {"extend", "extend!", "require"} THEN "extension"
    ELSE IF name = "resourceblock" THEN "resourceblock"
    ELSE IF name \in {"frag", "geom", "tesc", "tese"} THEN "passthrough"
    ELSE "none"

\* bisect.bisect_right(self.starts, line): the entries equal to line are
\* to the left of the insertion point
StartsAtOrAfter(start, line) ==
    start >= line

StartsAfter(start, line) ==
    start > line

\* the first function of the list whatever the line, 0 for None
find_first(fl, line) ==
    IF fl = <<>> THEN 0 ELSE 1

\* FunctionList.find_next: bisect_right over the starts, 0 for None
find_next(fl, line) ==
    IF \E i \in 1..Len(fl) : StartsAfter(fl[i].line_start, line)
    THEN Min({i \in 1..Len(fl) : StartsAfter(fl[i].line_start, line)})
    ELSE 0

\* the state the handlers of one logical unit work on: the functions, the
\* global attachments, the replacement text so far, the exception raised,
\* and the record of the dispatches (handled or logged as unhandled)
Dispatch(attr, index, ctx, handled) ==
    [name |-> attr.name, args |-> attr.args, index |-> index, ctx |-> ctx,
     handled |-> handled]

\* handle_attr when attr_map.get(name) is None: logger.warning, return ''
UnhandledRaises(st, attr, index, ctx) ==
    [st EXCEPT !.err = "unhandled attribute",
               !.log = Append(@, Dispatch(attr, index, ctx, FALSE))]

Unhandled(st, attr, index, ctx) ==
    [st EXCEPT !.log = Append(@, Dispatch(attr, index, ctx, FALSE))]

\* AttributeHandlers.shader: "if not fn.stage"
StageCheckAbsent(stage) ==
    TRUE

StageUnset(stage) ==
    stage = None

ShaderHandler(st, attr, index) ==
    LET i == find_next(st.funcs, index)
        done == [st EXCEPT !.out = @ \o <<"//<<SHADER STAGE DECL'>>//", "\n">>,
                           !.log = Append(@, Dispatch(attr, index, "global", TRUE))]
    IN  IF i = 0 THEN done
        ELSE IF ~StageUnset(st.funcs[i].stage)
        THEN [st EXCEPT !.err = "stage already set",
                        !.log = Append(@, Dispatch(attr, index, "global", TRUE))]
        ELSE IF Len(attr.args) = 0
        THEN [st EXCEPT !.err = "IndexError"]
        ELSE IF attr.args[1] \notin AliasTokens
        THEN [st EXCEPT !.err = "unknown shader stage"]
        ELSE [done EXCEPT !.funcs[i].stage = from_token(attr.args[1])]

\* AttributeHandlers.program
ProgramHandler(st, attr, index) ==
    [st EXCEPT !.glob = Append(@, attr),
               !.out = @ \o <<"//<<PROGRAM DEC 'program'>>//", "\n">>,
               !.log = Append(@, Dispatch(attr, index, "global", TRUE))]

\* dict.get(key, default) on the parsed key=value pairs
kwargs_get_or(kwargs, key, default) ==
    IF \E k \in 1..Len(kwargs) : kwargs[k][1] = key
    THEN kwargs[CHOOSE k \in 1..Len(kwargs) :
                  /\ kwargs[k][1] = key
                  /\ \A m \in (k + 1)..Len(kwargs) : kwargs[m][1] # key][2]
    ELSE default

\* the numthreads list of AttributeHandlers.numthreads with every component
\* taken from the first argument
NumthreadsRepeated(attr) ==
    IF attr.args # <<>>
    THEN [i \in 1..3 |-> attr.args[1]]
    ELSE [i \in 1..3 |-> kwargs_get_or(attr.kwargs, "x", "1")]

\* the numthreads list of AttributeHandlers.numthreads: [1, 1, 1] overwritten
\* by up to three positional arguments, or x, y, z of kwargs with default 1.
\* int() of a decimal literal formats back to the same digits
Numthreads(attr) ==
    IF attr.args # <<>>
    THEN [i \in 1..3 |-> IF i <= Len(attr.args) THEN attr.args[i] ELSE "1"]
    ELSE <<kwargs_get_or(attr.kwargs, "x", "1"),
           kwargs_get_or(attr.kwargs, "y", "1"),
           kwargs_get_or(attr.kwargs, "z", "1")>>

\* f'layout(local_size_x={..}, local_size_y={..}, local_size_z={..}) in;'
LocalSizeLine(n) ==
    <<"layout(local_size_x=", n[1], ", local_size_y=", n[2],
      ", local_size_z=", n[3], ") in;">>

\* AttributeHandlers.numthreads
NumthreadsHandler(st, attr, index) ==
    LET i == find_next(st.funcs, index)
        done == [st EXCEPT !.out = @ \o <<"//<<ATTR 'numthreads'>>//", "\n">>,
                           !.log = Append(@, Dispatch(attr, index, "global", TRUE))]
    IN  IF i = 0 THEN done
        ELSE [done EXCEPT !.funcs[i].config = Append(@, LocalSizeLine(Numthreads(attr)))]

\* '\n'.join of one "{% include 'sn' %}" per argument
RECURSIVE IncludeLines(_)
IncludeLines(args) ==
    IF args = <<>> THEN <<>>
    ELSE IF Len(args) = 1 THEN <<"{% include '", args[1], "' %}">>
    ELSE <<"{% include '", args[1], "' %}", "\n">> \o IncludeLines(Tail(args))

\* AttributeHandlers.dependency
DependencyHandler(st, attr, index) ==
    [st EXCEPT !.glob = Append(@, attr),
               !.out = @ \o IncludeLines(attr.args),
               !.log = Append(@, Dispatch(attr, index, "global", TRUE))]

\* AttributeHandlers.extension
ExtensionHandler(st, attr, index) ==
    [st EXCEPT !.glob = Append(@, attr),
               !.out = @ \o <<"//<<EXTENSION '", attr.name, "'>>//", "\n">>,
               !.log = Append(@, Dispatch(attr, index, "global", TRUE))]

\* DECL_RE.match, for the declarations of AttrTokens
DeclMatches(item) ==
    item \in {"in vec3 p", "out vec4 c : LOC0"}

\* the line built from the groups of the match
DeclLine(item) ==
    CASE item = "in vec3 p" -> <<"in vec3 p;">>
      [] item = "out vec4 c : LOC0" -> <<"layout(location = 0) ", "out vec4 c;">>

\* the loop over attr.args of AttributeHandlers.resourceblock: the lines
\* appended to config before the first item DECL_RE rejects
RECURSIVE DeclLines(_)
DeclLines(items) ==
    IF items = <<>> \/ ~DeclMatches(Head(items)) THEN <<>>
    ELSE <<DeclLine(Head(items))>> \o DeclLines(Tail(items))

\* AttributeHandlers.resourceblock
ResourceblockHandler(st, attr, index) ==
    LET i == find_next(st.funcs, index)
        done == [st EXCEPT !.out = @ \o <<"//<<RESOURCE BLOCK DECL>>//", "\n">>,
                           !.log = Append(@, Dispatch(attr, index, "global", TRUE))]
        lines == DeclLines(attr.args)
    IN  IF i = 0 THEN done
        ELSE IF Len(lines) < Len(attr.args)
        THEN [st EXCEPT !.funcs[i].config = @ \o lines,
                        !.err = "unrecognised resource declaration",
                        !.log = Append(@, Dispatch(attr, index, "global", TRUE))]
        ELSE [done EXCEPT !.funcs[i].config = @ \o lines]

\* AttributeHandlers.passthrough
PassthroughHandler(st, attr, index) ==
    LET i == find_next(st.funcs, index)
        done == [st EXCEPT !.out = @ \o <<"//<<", attr.name, ">>//", "\n">>,
                           !.log = Append(@, Dispatch(attr, index, "global", TRUE))]
    IN  IF i = 0 THEN done
        ELSE [done EXCEPT !.funcs[i].attrs = Append(@, attr)]

\* _process_attr_line.handle_attr
handle_attr(st, attr, index, ctx) ==
    IF st.err # NoFileErr THEN st
    ELSE IF ctx = "function"
    THEN IF attr.name \in DOMAIN FUNC_CTX_ATTR_MAP
         THEN [st EXCEPT !.out = Append(@, FUNC_CTX_ATTR_MAP[attr.name]),
                         !.log = Append(@, Dispatch(attr, index, ctx, TRUE))]
         ELSE Unhandled(st, attr, index, ctx)
    ELSE CASE GLOB_CTX_ATTR_MAP(attr.name) = "shader" -> ShaderHandler(st, attr, index)
           [] GLOB_CTX_ATTR_MAP(attr.name) = "program" -> ProgramHandler(st, attr, index)
           [] GLOB_CTX_ATTR_MAP(attr.name) = "numthreads" -> NumthreadsHandler(st, attr, index)
           [] GLOB_CTX_ATTR_MAP(attr.name) = "dependency" -> DependencyHandler(st, attr, index)
           [] GLOB_CTX_ATTR_MAP(attr.name) = "extension" -> ExtensionHandler(st, attr, index)
           [] GLOB_CTX_ATTR_MAP(attr.name) = "resourceblock" ->
                 ResourceblockHandler(st, attr, index)
           [] GLOB_CTX_ATTR_MAP(attr.name) = "passthrough" ->
                 PassthroughHandler(st, attr, index)
           [] GLOB_CTX_ATTR_MAP(attr.name) = "none" -> Unhandled(st, attr, index, ctx)

RECURSIVE HandleAll(_, _, _, _)
HandleAll(st, attrs, index, ctx) ==
    IF attrs = <<>> THEN st
    ELSE HandleAll(handle_attr(st, Head(attrs), index, ctx), Tail(attrs), index, ctx)

\* str.strip() on a token sequence: newlines at both ends go
RECURSIVE Strip(_)
Strip(s) ==
    IF s = <<>> THEN s
    ELSE IF s[1] = "\n" THEN Strip(Tail(s))
    ELSE IF s[Len(s)] = "\n" THEN Strip(SubSeq(s, 1, Len(s) - 1))
    ELSE s

\* split_attr_block.flush_buffer: the buffer is an attribute when
\* ATTR_PATTERN matches all of it
flush_buffer(buffer) ==
    IF Len(Strip(buffer)) = 1 /\ Strip(buffer)[1] \in AttrTokens
    THEN <<match_attr(Strip(buffer)[1])>>
    ELSE <<>>

\* split_attr_block: split at the commas (the parentheses are inside the
\* attribute tokens, so every comma token is at depth 0)
RECURSIVE SplitFrom(_, _)
SplitFrom(s, buffer) ==
    IF s = <<>> THEN (IF buffer # <<>> THEN flush_buffer(buffer) ELSE <<>>)
    ELSE IF s[1] = "," THEN flush_buffer(buffer) \o SplitFrom(Tail(s), <<>>)
    ELSE SplitFrom(Tail(s), Append(buffer, s[1]))

split_attr_block(block_str) ==
    SplitFrom(block_str, <<>>)

\* BLOCK_PATTERN.finditer: "[", one or more characters other than "]", "]";
\* the matches from position pos on, each as its first and last position
RECURSIVE FindBlocks(_, _)
FindBlocks(s, pos) ==
    LET starts == {p \in pos..Len(s) :
                     /\ s[p] = "["
                     /\ \E q \in (p + 2)..Len(s) :
                           s[q] = "]" /\ \A r \in (p + 1)..(q - 1) : s[r] # "]"}
    IN  IF starts = {} THEN <<>>
        ELSE LET p == Min(starts)
                 q == Min({r \in (p + 1)..Len(s) : s[r] = "]"})
             IN  <<[lo |-> p, hi |-> q]>> \o FindBlocks(s, q + 1)

\* the attributes of all the blocks of a logical unit, in order
RECURSIVE BlockAttrs(_, _)
BlockAttrs(s, blocks) ==
    IF blocks = <<>> THEN <<>>
    ELSE split_attr_block(Strip(SubSeq(s, Head(blocks).lo + 1, Head(blocks).hi - 1)))
            \o BlockAttrs(s, Tail(blocks))

CountTok(line, tok) ==
    Cardinality({k \in 1..Len(line) : line[k] = tok})

\* the while True loop of _process_attr_line: lines are taken until the count
\* of "[" minus "]" is <= 0 or the next index is not in the map
RECURSIVE ScanUnit(_, _, _, _)
ScanUnit(map, index, depth, line_str) ==
    LET line == map[index]
        d == depth + CountTok(line, "[") - CountTok(line, "]")
    IN  IF d <= 0 \/ (index + 1) \notin DOMAIN map
        THEN [last |-> index, line_str |-> line_str \o line, depth |-> d]
        ELSE ScanUnit(map, index + 1, d, line_str \o line)

\* re.match(r'^\s*(?:\[|#)', ...): no line of LineMenu starts with "#"
StartsAttr(data) ==
    data # <<>> /\ data[1] = "["

\* "return index, out_line" after the scan loop has advanced index to the
\* last line of the unit; the caller stores repl at that index
StoreIndex(start_index, index) ==
    index

\* _process_attr_line on map[index]; the caller's "map[idx_out].data = repl"
\* is part of the result.  st0 carries funcs and glob_attachments in.
ProcessAttrLine(map, index, ctx, st0) ==
    IF ~StartsAttr(map[index])
    THEN [map |-> map, idx_out |-> index, st |-> st0, depth |-> 0,
          repl |-> map[index]]
    ELSE LET u == ScanUnit(map, index, 0, <<>>)
             blanked == [k \in DOMAIN map |->
                           IF k \in index..u.last THEN <<"\n">> ELSE map[k]]
             blocks == FindBlocks(u.line_str, 1)
             st == HandleAll(st0, BlockAttrs(u.line_str, blocks), index, ctx)
             last_match == IF blocks = <<>> THEN 0 ELSE blocks[Len(blocks)].hi
             out_line == st.out \o SubSeq(u.line_str, last_match + 1, Len(u.line_str))
         IN  IF st.err # NoFileErr
             THEN [map |-> blanked, idx_out |-> u.last, st |-> st, depth |-> u.depth,
                   repl |-> <<>>]
             ELSE [map |-> [blanked EXCEPT ![StoreIndex(index, u.last)] = out_line],
                   idx_out |-> u.last, st |-> st, depth |-> u.depth,
                   repl |-> out_line]

HandlerState ==
    [funcs |-> funcs, glob |-> glob_attrs, out |-> <<>>, err |-> NoFileErr,
     log |-> dispatched]

\* sorted(map) as a sequence
RECURSIVE SortedKeys(_)
SortedKeys(S) ==
    IF S = {} THEN <<>> ELSE <<Min(S)>> \o SortedKeys(S \ {Min(S)})

\* bisect.bisect_left in its place: the position of idx_out itself
PositionOf(keys, idx_out) ==
    Cardinality({k \in keys : k < idx_out}) + 1

\* bisect.bisect_right(line_indices, idx_out), as the next 1-based position
NextPosition(keys, idx_out) ==
    Cardinality({k \in keys : k <= idx_out}) + 1

\* one pass of the while loop of _attach_func_ctx_attrs or
\* _attach_glob_ctx_attrs: the index it started at, the idx_out and the repl
\* that _process_attr_line returned
LogicalUnit(ctx, func, first, last, repl) ==
    [ctx |-> ctx, func |-> func, first |-> first, last |-> last, repl |-> repl]

\* _attach_func_ctx_attrs: one logical unit of the line_body of a function
FuncCtxUnit ==
    /\ f_pc = "func_ctx"
    /\ cur_func <= Len(funcs)
    /\ LET body == funcs[cur_func].line_body
           line_indices == SortedKeys(DOMAIN body)
           r == ProcessAttrLine(body, line_indices[cur_i], "function", HandlerState)
           nxt == NextPosition(DOMAIN body, r.idx_out)
       IN  /\ funcs' = [funcs EXCEPT ![cur_func].line_body = r.map]
           /\ dispatched' = r.st.log
           /\ unclosed' = IF r.depth > 0 THEN unclosed \cup {line_indices[cur_i]}
                          ELSE unclosed
           /\ IF nxt > Len(line_indices)
              THEN cur_func' = cur_func + 1 /\ cur_i' = 1
              ELSE cur_func' = cur_func /\ cur_i' = nxt
           /\ units' = Append(units, LogicalUnit("function", cur_func,
                                    line_indices[cur_i], r.idx_out, r.repl))
    /\ UNCHANGED <<src, src_map, search_pos, f_pc, f_err, glob_attrs, cur_attr,
                  programs, dps, ext, module>>
    /\ FileFrame

\* the loop over funcs.items ends; _attach_glob_ctx_attrs starts
FuncCtxDone ==
    /\ f_pc = "func_ctx"
    /\ cur_func > Len(funcs)
    /\ f_pc' = "glob_ctx"
    /\ cur_i' = 1
    /\ UNCHANGED <<src, src_map, funcs, search_pos, f_err, cur_func, glob_attrs,
                  cur_attr, programs, dps, ext, module, dispatched, unclosed, units>>
    /\ FileFrame

\* _attach_glob_ctx_attrs: one logical unit of the global remainder; an
\* exception of a handler ends the processing of the file
GlobCtxUnit ==
    /\ f_pc = "glob_ctx"
    /\ cur_i <= Cardinality(DOMAIN src_map)
    /\ LET line_indices == SortedKeys(DOMAIN src_map)
           r == ProcessAttrLine(src_map, line_indices[cur_i], "global", HandlerState)
       IN  /\ src_map' = r.map
           /\ funcs' = r.st.funcs
           /\ glob_attrs' = r.st.glob
           /\ dispatched' = r.st.log
           /\ unclosed' = IF r.depth > 0 THEN unclosed \cup {line_indices[cur_i]}
                          ELSE unclosed
           /\ f_err' = r.st.err
           /\ f_pc' = IF r.st.err # NoFileErr THEN "error" ELSE f_pc
           /\ cur_i' = NextPosition(DOMAIN src_map, r.idx_out)
           /\ units' = IF r.st.err # NoFileErr THEN units
                        ELSE Append(units, LogicalUnit("global", 0,
                                        line_indices[cur_i], r.idx_out, r.repl))
    /\ UNCHANGED <<src, search_pos, cur_func, cur_attr, programs, dps, ext, module>>
    /\ FileFrame

\* process_attrs returns glob_attachments; _process_function_attrs starts
GlobCtxDone ==
    /\ f_pc = "glob_ctx"
    /\ cur_i > Cardinality(DOMAIN src_map)
    /\ f_pc' = "function_attrs"
    /\ UNCHANGED <<src, src_map, funcs, search_pos, f_err, cur_func, cur_i,
                  glob_attrs, cur_attr, programs, dps, ext, module, dispatched,
                  unclosed, units>>
    /\ FileFrame

\* ------------------------------------------------------------------
\* ShaderProcessor.__init__, steps 3 to 5
\* ------------------------------------------------------------------
\* "match func.stage": the stages that have a settings dict
HasSettings(stage) ==
    stage \in {"frag", "geom", "tesc", "tese"}

\* FRAG_DEFAULTS, GEOM_DEFAULTS, TESC_DEFAULTS, TESE_DEFAULTS.copy()
StageDefaults(stage) ==
    CASE stage = "frag" -> ("early_tests" :> "False")
      [] stage = "geom" -> ("in" :> "triangles") @@ ("out" :> "triangle_strip")
                              @@ ("max_verts" :> "3")
      [] stage = "tesc" -> ("vertices" :> "0")
      [] stage = "tese" -> ("in" :> "triangles") @@ ("spacing" :> "equal_spacing")
                              @@ ("order" :> "ccw")

\* ALIAS.get(k, k)
ALIAS(k) ==
    CASE k \in {"tri", "tris"} -> "triangles"
      [] k = "tri_adj" -> "triangles_adjacency"
      [] k = "lines_adj" -> "lines_adjacency"
      [] k = "tri_strip" -> "triangle_strip"
      [] k = "even" -> "equal_spacing"
      [] k \in {"odd", "frac_odd"} -> "fractional_odd_spacing"
      [] k = "frac_even" -> "fractional_even_spacing"
      [] k \in {"vert", "verts", "patch", "patch_size"} -> "vertices"
      [] OTHER -> k

\* "for k, v in attr.kwargs.items()" of an attribute named after the stage:
\* the settings after the pairs; ok is FALSE when a key is not a setting
\* (ValueError)
RECURSIVE ApplyModifiers(_, _)
ApplyModifiers(r, kwargs) ==
    IF kwargs = <<>> \/ ~r.ok THEN r
    ELSE IF ALIAS(kwargs[1][1]) \notin DOMAIN r.settings
    THEN [r EXCEPT !.ok = FALSE]
    ELSE ApplyModifiers([r EXCEPT !.settings[ALIAS(kwargs[1][1])] = ALIAS(kwargs[1][2])],
                        Tail(kwargs))

\* "for attr in func.attrs": the passed attributes of the model carry the
\* name of a stage, which is no key of SIMPLE_ATTR, so an attribute either
\* is named after the stage of the function or is skipped
RECURSIVE StageSettings(_, _, _)
StageSettings(r, stage, attrs) ==
    IF attrs = <<>> \/ ~r.ok THEN r
    ELSE IF Head(attrs).name = stage
    THEN StageSettings(ApplyModifiers(r, Head(attrs).kwargs), stage, Tail(attrs))
    ELSE StageSettings(r, stage, Tail(attrs))

\* _emit_layout: the lines appended to func.config.  "0" and "False" stand
\* for the falsy defaults of TESC_DEFAULTS and FRAG_DEFAULTS
EmitLayout(stage, settings) ==
    CASE stage = "frag" ->
            IF settings["early_tests"] = "False" THEN <<>>
            ELSE << <<"layout(", "early_fragment_tests", ") in;">> >>
      [] stage = "geom" ->
            << <<"layout(", settings["in"], ") in;">>,
               <<"layout(", settings["out"], ", ", "max_vertices = ",
                 settings["max_verts"], ") out;">> >>
      [] stage = "tesc" ->
            IF settings["vertices"] = "0" THEN <<>>
            ELSE << <<"layout(", "vertices = ", settings["vertices"], ") out;">> >>
      [] stage = "tese" ->
            << <<"layout(", settings["in"], ", ", settings["spacing"], ", ",
                 settings["order"], ") in;">> >>
      [] OTHER -> <<>>

\* one pass of "for func in self.funcs.items": the function afterwards;
\* ok is FALSE when an unknown modifier raises ValueError
FunctionAttrs(func) ==
    IF ~HasSettings(func.stage) THEN [ok |-> TRUE, func |-> func]
    ELSE LET r == StageSettings([ok |-> TRUE, settings |-> StageDefaults(func.stage)],
                                func.stage, func.attrs)
         IN  IF ~r.ok THEN [ok |-> FALSE, func |-> func]
             ELSE [ok |-> TRUE,
                   func |-> [func EXCEPT !.config = @ \o EmitLayout(func.stage, r.settings)]]

\* _process_function_attrs: the functions before the one that raises are
\* done, the others are left as they were
ProcessFunctionAttrs ==
    /\ f_pc = "function_attrs"
    /\ LET bad == {i \in 1..Len(funcs) : ~FunctionAttrs(funcs[i]).ok}
       IN  IF bad = {}
           THEN /\ funcs' = [i \in 1..Len(funcs) |-> FunctionAttrs(funcs[i]).func]
                /\ f_pc' = "global_attrs"
                /\ cur_attr' = 1
                /\ UNCHANGED f_err
           ELSE /\ funcs' = [i \in 1..Len(funcs) |->
                               IF i < Min(bad) THEN FunctionAttrs(funcs[i]).func
                               ELSE funcs[i]]
                /\ f_pc' = "error"
                /\ f_err' = "unknown modifier"
                /\ UNCHANGED cur_attr
    /\ UNCHANGED <<src, src_map, search_pos, cur_func, cur_i, glob_attrs,
                  programs, dps, ext, module, dispatched, unclosed, units>>
    /\ FileFrame

\* dict.get on the parsed key=value pairs: the last pair of a key counts
kwargs_get(kwargs, key) ==
    IF \E k \in 1..Len(kwargs) : kwargs[k][1] = key
    THEN kwargs[CHOOSE k \in 1..Len(kwargs) :
                  /\ kwargs[k][1] = key
                  /\ \A m \in (k + 1)..Len(kwargs) : kwargs[m][1] # key][2]
    ELSE None

\* ShaderStage.gather_stages: the alias table is walked in order and every
\* alias present in kwargs writes its stage
RECURSIVE GatherFrom(_, _, _)
GatherFrom(kwargs, k, stages) ==
    IF k > Len(SHADER_STAGE_ALIASES) THEN stages
    ELSE LET token == SHADER_STAGE_ALIASES[k][1]
             stage == SHADER_STAGE_ALIASES[k][2]
             name == kwargs_get(kwargs, token)
         IN  IF name # None
             THEN GatherFrom(kwargs, k + 1,
                    [s \in DOMAIN stages \cup {stage} |->
                        IF s = stage THEN name ELSE stages[s]])
             ELSE GatherFrom(kwargs, k + 1, stages)

gather_stages(kwargs) ==
    GatherFrom(kwargs, 1, <<>>)

\* the duplicate test of _process_global_attrs
ProgramNeverDefined(name) ==
    FALSE

ProgramDefined(name) ==
    name \in DOMAIN programs

\* EXTENSION_GROUPS.get(token) and the ' : enable' or ' : require' suffix:
\* the entries one token of an extend, extend! or require attribute adds
EXTENSION_GROUPS(token) ==
    CASE token = "subgroup" ->
            {"GL_KHR_shader_subgroup_basic", "GL_KHR_shader_subgroup_vote",
             "GL_KHR_shader_subgroup_ballot", "GL_KHR_shader_subgroup_arithmetic"}
      [] token = "subgroup_all" ->
            {"GL_KHR_shader_subgroup_basic", "GL_KHR_shader_subgroup_vote",
             "GL_KHR_shader_subgroup_ballot", "GL_KHR_shader_subgroup_arithmetic",
             "GL_KHR_shader_subgroup_shuffle", "GL_KHR_shader_subgroup_shuffle_relative",
             "GL_KHR_shader_subgroup_clustered", "GL_KHR_shader_subgroup_quad"}
      [] OTHER -> {token}

ExtensionsOf(token, attr_name) ==
    {[name |-> e, mode |-> IF attr_name = "extend" THEN "enable" ELSE "require"] :
        e \in EXTENSION_GROUPS(token)}

\* _process_global_attrs: one attribute of glob_attrs
ProcessGlobalAttr ==
    /\ f_pc = "global_attrs"
    /\ cur_attr <= Len(glob_attrs)
    /\ LET attr == glob_attrs[cur_attr]
       IN  IF attr.name = "include"
           THEN /\ dps' = dps \cup {attr.args[k] : k \in 1..Len(attr.args)}
                /\ cur_attr' = cur_attr + 1
                /\ UNCHANGED <<programs, ext, f_pc, f_err>>
           ELSE IF attr.name \in {"extend", "extend!", "require"}
           THEN /\ ext' = ext \cup UNION {ExtensionsOf(attr.args[k], attr.name) :
                                            k \in 1..Len(attr.args)}
                /\ cur_attr' = cur_attr + 1
                /\ UNCHANGED <<programs, dps, f_pc, f_err>>
           ELSE IF attr.name # "program"
           THEN /\ cur_attr' = cur_attr + 1
                /\ UNCHANGED <<programs, dps, ext, f_pc, f_err>>
           ELSE IF attr.args = <<>>
           THEN /\ f_pc' = "error"
                /\ f_err' = "missing program name"
                /\ UNCHANGED <<programs, dps, ext, cur_attr>>
           ELSE IF ProgramDefined(attr.args[1])
           THEN /\ f_pc' = "error"
                /\ f_err' = "program already defined"
                /\ UNCHANGED <<programs, dps, ext, cur_attr>>
           ELSE /\ programs' = [n \in DOMAIN programs \cup {attr.args[1]} |->
                                  IF n = attr.args[1] THEN gather_stages(attr.kwargs)
                                  ELSE programs[n]]
                /\ cur_attr' = cur_attr + 1
                /\ UNCHANGED <<dps, ext, f_pc, f_err>>
    /\ UNCHANGED <<src, src_map, funcs, search_pos, cur_func, cur_i, glob_attrs,
                  module, dispatched, unclosed, units>>
    /\ FileFrame

\* "if not func.stage": every member of ShaderStage is a non-empty string,
\* so only None passes
UntaggedAll(func) ==
    TRUE

Untagged(func) ==
    func.stage = None

\* _create_module, after the last global attribute
CreateModule ==
    /\ f_pc = "global_attrs"
    /\ cur_attr > Len(glob_attrs)
    /\ LET free == {i \in 1..Len(funcs) : Untagged(funcs[i])}
           keys == DOMAIN src_map \cup UNION {DOMAIN funcs[i].line_body : i \in free}
       IN  module' = [k \in keys |->
                        IF \E i \in free : k \in DOMAIN funcs[i].line_body
                        THEN funcs[CHOOSE i \in free : k \in DOMAIN funcs[i].line_body].line_body[k]
                        ELSE src_map[k]]
    /\ f_pc' = "done"
    /\ UNCHANGED <<src, src_map, funcs, search_pos, f_err, cur_func, cur_i,
                  glob_attrs, cur_attr, programs, dps, ext, dispatched, unclosed, units>>
    /\ FileFrame

FileNext ==
    \/ ExtractFunc
    \/ ExtractUnmatched
    \/ ExtractDone
    \/ FuncCtxUnit
    \/ FuncCtxDone
    \/ GlobCtxUnit
    \/ GlobCtxDone
    \/ ProcessFunctionAttrs
    \/ ProcessGlobalAttr
    \/ CreateModule

\* the processor before it is given a file
FileIdle ==
    /\ src = <<>>
    /\ src_map = <<>>
    /\ funcs = <<>>
    /\ search_pos = 0
    /\ f_pc = "idle"
    /\ f_err = NoFileErr
    /\ cur_func = 0
    /\ cur_i = 0
    /\ glob_attrs = <<>>
    /\ cur_attr = 0
    /\ programs = <<>>
    /\ dps = {}
    /\ ext = {}
    /\ module = <<>>
    /\ dispatched = <<>>
    /\ unclosed = {}
    /\ units = <<>>

\* ------------------------------------------------------------------
\* BindingRegistry.remove_unused_buffers
\* ------------------------------------------------------------------
\* A text is a sequence of items.  An item is either a buffer declaration
\*     layout(std430) [qual ]buffer <name> { <line> };
\* with one line of fields, or a statement outside every declaration that
\* mentions one word.  A line of fields is a sequence of tokens; the tokens
\* of a line are separated by white space exactly after its type names.
MaxItems == 3

BufNames == {"X", "Y"}

FieldA == <<"float", "a", ";">>

FieldAB == <<"float", "a", ",", "b[4]", ";">>

FieldASemiB == <<"float", "a", ";", "float", "b", ";">>

FieldComment == <<"//", "float", "a", ";">>

FieldLines == {FieldA, FieldAB, FieldASemiB, FieldComment}

BufferDecls ==
    [kind : {"buffer"}, name : BufNames, qual : Qualifiers, line : FieldLines]

UseItems ==
    [kind : {"use"}, word : {"a", "b"}]

BufItems == BufferDecls \cup UseItems

\* buffer_pattern: layout(...) must be followed by the word buffer itself
BufferPatternMatches(item) ==
    item.kind = "buffer" /\ item.qual = ""

\* re.sub(r'\[.*?\]', '', var)
StripArray(tok) ==
    IF tok = "b[4]" THEN "b" ELSE tok

\* position of the first ";" of a line, 0 when it has none
FirstSemi(line) ==
    IF \E i \in 1..Len(line) : line[i] = ";"
        THEN Min({i \in 1..Len(line) : line[i] = ";"})
        ELSE 0

\* the loop body over fields.splitlines(): a line that is a comment or has
\* no ";" is skipped; otherwise the first chunk is the type, the rest is
\* cut at its first ";" and split at ","
VarNames(line) ==
    IF Len(line) = 0 \/ line[1] = "//" \/ FirstSemi(line) = 0
        THEN {}
        ELSE {StripArray(line[i]) : i \in {j \in 2..(FirstSemi(line) - 1) : line[j] # ","}}

\* the whole words of a token, as \b...\b finds them
WordsOfToken(tok) ==
    CASE tok \in {"//", ";", ","} -> {}
      [] tok = "b[4]" -> {"b", "4"}
      [] OTHER -> {tok}

WordsOfItem(item) ==
    IF item.kind = "use"
        THEN {item.word}
        ELSE {"layout", "std430", "buffer", item.name}
                \cup (IF item.qual = "" THEN {} ELSE {item.qual})
                \cup UNION {WordsOfToken(item.line[i]) : i \in 1..Len(item.line)}

\* rest_of_code = src[:match.start()] + src[match.end():]
RestWords(text, p) ==
    UNION {WordsOfItem(text[q]) : q \in (1..Len(text)) \ {p}}

IsUsed(text, p) ==
    \E name \in VarNames(text[p].line) : name \in RestWords(text, p)

BufInit ==
    /\ buf_src \in BoundedSeq(BufItems, MaxItems)
    /\ Len(buf_src) >= 1
    /\ to_remove = {}
    /\ buf_out = <<>>
    /\ buf_pc = "scan"

\* the loop over buffer_pattern.finditer(src)
FindUnused ==
    /\ buf_pc = "scan"
    /\ to_remove' = {buf_src[p] : p \in {q \in 1..Len(buf_src) :
                        /\ BufferPatternMatches(buf_src[q])
                        /\ ~IsUsed(buf_src, q)}}
    /\ buf_pc' = "remove"
    /\ UNCHANGED <<buf_src, buf_out>>
    /\ BufFrame

\* for block in to_remove: src = src.replace(block, '')
RemoveBlocks ==
    /\ buf_pc = "remove"
    /\ buf_out' = SelectSeq(buf_src, LAMBDA item : item \notin to_remove)
    /\ buf_pc' = "done"
    /\ UNCHANGED <<buf_src, to_remove>>
    /\ BufFrame

BufNext ==
    \/ FindUnused
    \/ RemoveBlocks

\* the function before it is called
BufIdle ==
    /\ buf_src = <<>>
    /\ to_remove = {}
    /\ buf_out = <<>>
    /\ buf_pc = "idle"

\* ------------------------------------------------------------------
\* ShaderManager.__init__
\* ------------------------------------------------------------------
\* Files are numbered in the order glob yields them; an include may also
\* name a module that is no file of the directory (NoSuchFile).
NumFiles == 3

MaxIncludes == 2

FileNames == 1..NumFiles

NoSuchFile == NumFiles + 1

\* 'GL_KHR_vulkan_glsl : require', which every processor starts with
BaseExt == 0

\* the entry an [extend(...)] of file f adds
OwnExt(f) == f

IncludeSets ==
    {D \in SUBSET (FileNames \cup {NoSuchFile}) : Cardinality(D) <= MaxIncludes}

MgrInit ==
    /\ m_dps \in [FileNames -> IncludeSets]
    /\ m_own \in {e \in [FileNames -> SUBSET (0..NumFiles)] :
                    \A f \in FileNames : /\ BaseExt \in e[f]
                                         /\ e[f] \subseteq {BaseExt, OwnExt(f)}}
    /\ m_fatal \in 0..NumFiles
    /\ processors = <<>>
    /\ m_modules = {}
    /\ commons = <<>>
    /\ shaders = <<>>
    /\ m_pc = "glob"
    /\ m_i = 1

\* for fp in glob(...): processors[name] = ShaderProcessor(...); dm.register
ProcessFile ==
    /\ m_pc = "glob"
    /\ m_i <= NumFiles
    /\ m_i # m_fatal
    /\ processors' = processors @@ (m_i :> m_own[m_i])
    /\ m_modules' = m_modules \cup {m_i}
    /\ m_i' = m_i + 1
    /\ UNCHANGED <<m_dps, m_own, m_fatal, commons, shaders, m_pc>>
    /\ MgrFrame

\* ShaderProcessor(...) raises (unmatched brace, duplicate stage or
\* program); nothing in __init__ catches it
ProcessFileRaises ==
    /\ m_pc = "glob"
    /\ m_i <= NumFiles
    /\ m_i = m_fatal
    /\ m_pc' = "raised"
    /\ UNCHANGED <<m_dps, m_own, m_fatal, processors, m_modules, commons,
                   shaders, m_i>>
    /\ MgrFrame

\* the modules dfs reaches from a set of modules through dps_graph
RECURSIVE MgrReach(_)
MgrReach(S) ==
    LET T == S \cup UNION {m_dps[n] : n \in S \cap m_modules}
    IN  IF T = S THEN S ELSE MgrReach(T)

\* resolve_dependencies(name) raises: a reached module names a dependency
\* that is not registered, or the traversal comes back to a module of the
\* link tree
MgrOnCycle(n) ==
    n \in m_modules /\ n \in MgrReach(m_dps[n])

BuildRaises(name) ==
    \/ ~(MgrReach({name}) \subseteq m_modules)
    \/ \E n \in MgrReach({name}) : MgrOnCycle(n)

\* commons = dm.build_all(): one dict comprehension over all the modules
BuildAll ==
    /\ m_pc = "glob"
    /\ m_i > NumFiles
    /\ \A name \in m_modules : ~BuildRaises(name)
    /\ commons' = [k \in 1..NumFiles |-> k]
    /\ m_pc' = "shaders"
    /\ m_i' = 1
    /\ UNCHANGED <<m_dps, m_own, m_fatal, processors, m_modules, shaders>>
    /\ MgrFrame

BuildAllRaises ==
    /\ m_pc = "glob"
    /\ m_i > NumFiles
    /\ \E name \in m_modules : BuildRaises(name)
    /\ m_pc' = "raised"
    /\ UNCHANGED <<m_dps, m_own, m_fatal, processors, m_modules, commons,
                   shaders, m_i>>
    /\ MgrFrame

\* for dp in process.dps: process.ext.update(processors[dp].ext)
Consolidate(name) ==
    processors[name] \cup UNION {processors[dp] : dp \in m_dps[name]}

\* for name, common in commons.items(): consolidate, then Shader(...),
\* which writes process.ext into the base text of its stages
CreateShader ==
    /\ m_pc = "shaders"
    /\ m_i <= Len(commons)
    /\ LET name == commons[m_i]
       IN  /\ processors' = [processors EXCEPT ![name] = Consolidate(name)]
           /\ shaders' = shaders @@ (name :> Consolidate(name))
    /\ m_i' = m_i + 1
    /\ m_pc' = IF m_i = Len(commons) THEN "done" ELSE "shaders"
    /\ UNCHANGED <<m_dps, m_own, m_fatal, m_modules, commons>>
    /\ MgrFrame

MgrNext ==
    \/ ProcessFile
    \/ ProcessFileRaises
    \/ BuildAll
    \/ BuildAllRaises
    \/ CreateShader

\* the manager before it is constructed
MgrIdle ==
    /\ m_dps = <<>>
    /\ m_own = <<>>
    /\ m_fatal = 0
    /\ processors = <<>>
    /\ m_modules = {}
    /\ commons = <<>>
    /\ shaders = <<>>
    /\ m_pc = "idle"
    /\ m_i = 0

\* ------------------------------------------------------------------
\* Shader._build: linking the declared programs
\* ------------------------------------------------------------------
MaxPrograms == 2

\* names a program attribute gives to its stages; "f" can be an assembled
\* stage function, "g" never is
StageFuncs == {"f", "g"}

Assembled == {"f"}

LinkStages == {"vert", "frag", "geom", "tesc", "tese"}

OptionalStages == LinkStages \ {"vert"}

\* the values of process.programs: what gather_stages returns
ProgDecs ==
    UNION {[K -> StageFuncs] : K \in SUBSET LinkStages}

\* src/src/tlang/shader.py wraps the link of one program in try/except and
\* logs; src/tlang/shader.py has the same statements without the try
Variants == {"logging", "raising"}

LinkInit ==
    /\ l_stages \in SUBSET Assembled
    /\ l_programs \in BoundedSeq(ProgDecs, MaxPrograms)
    /\ l_variant \in Variants
    /\ linked = <<>>
    /\ l_logged = {}
    /\ l_pc = "link"
    /\ l_k = 1

\* stages[str(prog_dec[ShaderStage.VERT])] finds a source
VertexFound(dec) ==
    "vert" \in DOMAIN dec /\ dec["vert"] \in l_stages

\* stages.get(x) if x else None
Supplied(dec, stage) ==
    IF stage \in DOMAIN dec /\ dec[stage] \in l_stages THEN dec[stage] ELSE None

\* self._programs[prog_name] = self._ctx.program(...)
LinkProgram ==
    /\ l_pc = "link"
    /\ l_k <= Len(l_programs)
    /\ VertexFound(l_programs[l_k])
    /\ linked' = linked @@ (l_k :>
            [s \in LinkStages |-> Supplied(l_programs[l_k], s)])
    /\ l_k' = l_k + 1
    /\ UNCHANGED <<l_stages, l_programs, l_variant, l_logged, l_pc>>
    /\ LinkFrame

\* the KeyError of the vertex lookup inside try: except Exception logs it
\* and the loop goes on with the next program
LinkFailureLogged ==
    /\ l_pc = "link"
    /\ l_k <= Len(l_programs)
    /\ ~VertexFound(l_programs[l_k])
    /\ l_variant = "logging"
    /\ l_logged' = l_logged \cup {l_k}
    /\ l_k' = l_k + 1
    /\ UNCHANGED <<l_stages, l_programs, l_variant, linked, l_pc>>
    /\ LinkFrame

\* the same KeyError without the try: it leaves _build
LinkFailureRaised ==
    /\ l_pc = "link"
    /\ l_k <= Len(l_programs)
    /\ ~VertexFound(l_programs[l_k])
    /\ l_variant = "raising"
    /\ l_pc' = "raised"
    /\ UNCHANGED <<l_stages, l_programs, l_variant, linked, l_logged, l_k>>
    /\ LinkFrame

\* the loop is over: _build logs the build and returns
LinkReturn ==
    /\ l_pc = "link"
    /\ l_k > Len(l_programs)
    /\ l_pc' = "done"
    /\ UNCHANGED <<l_stages, l_programs, l_variant, linked, l_logged, l_k>>
    /\ LinkFrame

LinkNext ==
    \/ LinkProgram
    \/ LinkFailureLogged
    \/ LinkFailureRaised
    \/ LinkReturn

\* before _build is called
LinkIdle ==
    /\ l_stages = {}
    /\ l_programs = <<>>
    /\ l_variant = "logging"
    /\ linked = <<>>
    /\ l_logged = {}
    /\ l_pc = "idle"
    /\ l_k = 0

\* ------------------------------------------------------------------
\* FunctionList.find_next on its own
\* ------------------------------------------------------------------
MaxFuncs == 3

MaxStart == 6

\* FunctionList.items as extract_funcs builds it: the functions in the
\* order of the text, so their starts are strictly increasing
FunctionLists ==
    {fl \in BoundedSeq([line_start : 1..MaxStart], MaxFuncs) :
        \A i \in 1..(Len(fl) - 1) : fl[i].line_start < fl[i + 1].line_start}

FindInit ==
    /\ fn_items \in FunctionLists
    /\ fn_line \in 0..(MaxStart + 1)
    /\ fn_found = 0
    /\ fn_pc = "call"

\* return self.items[i] if i < len(self.items) else None
FindNext ==
    /\ fn_pc = "call"
    /\ find_next(fn_items, fn_line) # 0
    /\ fn_found' = find_next(fn_items, fn_line)
    /\ fn_pc' = "found"
    /\ UNCHANGED <<fn_items, fn_line>>
    /\ FindFrame

FindNextNone ==
    /\ fn_pc = "call"
    /\ find_next(fn_items, fn_line) = 0
    /\ fn_pc' = "none"
    /\ UNCHANGED <<fn_items, fn_line, fn_found>>
    /\ FindFrame

FindStep ==
    \/ FindNext
    \/ FindNextNone

\* before any call
FindIdle ==
    /\ fn_items = <<>>
    /\ fn_line = 0
    /\ fn_found = 0
    /\ fn_pc = "idle"

\* ------------------------------------------------------------------
\* BufferPool
\* ------------------------------------------------------------------
\* A buffer is its GL object name (glo), 1, 2, ... in the order of creation;
\* persistent_buffer is not among the calls, so _persistent stays empty.
\* Python runs with its assert statements enabled.
MaxBuffers == 3

MinSize == 256

RequestSizes == {100, 300}

\* tag = None, or one of two tags
Tags == {None, "t", "u"}

RECURSIVE bit_length(_)
bit_length(n) ==
    IF n = 0 THEN 0 ELSE 1 + bit_length(n \div 2)

Max(a, b) ==
    IF a >= b THEN a ELSE b

\* _align: 1 << (max(size, self._min_size) - 1).bit_length()
align(size) ==
    2 ^ bit_length(Max(size, MinSize) - 1)

NoCall ==
    [op |-> "none", arg |-> None, raised |-> "none"]

PoolInit ==
    /\ p_pool = <<>>
    /\ p_untagged = {}
    /\ p_tagged = <<>>
    /\ p_tag_map = <<>>
    /\ p_size = <<>>
    /\ p_held = {}
    /\ p_call = NoCall

\* list.sort(key=lambda b: b.size): stable insertion by size
RECURSIVE InsertBySize(_, _, _)
InsertBySize(sorted, b, size) ==
    IF sorted = <<>> THEN <<b>>
    ELSE IF size[sorted[Len(sorted)]] <= size[b] THEN Append(sorted, b)
    ELSE Append(InsertBySize(SubSeq(sorted, 1, Len(sorted) - 1), b, size),
                sorted[Len(sorted)])

RECURSIVE SortBySize(_, _)
SortBySize(pool, size) ==
    IF pool = <<>> THEN <<>>
    ELSE InsertBySize(SortBySize(SubSeq(pool, 1, Len(pool) - 1), size),
                      pool[Len(pool)], size)

\* bisect_left(self._pool, aligned_size, key=...), as a 1-based position
BisectLeft(pool, aligned, size) ==
    Cardinality({k \in 1..Len(pool) : size[pool[k]] < aligned}) + 1

RemoveAt(seq, i) ==
    SubSeq(seq, 1, i - 1) \o SubSeq(seq, i + 1, Len(seq))

\* "assert tag not in self._tagged"
TagCheckAbsent(tag) ==
    FALSE

TagInUse(tag) ==
    tag \in DOMAIN p_tagged

\* the "track usage" part of alloc_temp for the buffer buf that was taken;
\* the pool and the sizes have already been changed when the assert fails
TrackUsage(buf, tag) ==
    IF tag # None
    THEN IF TagInUse(tag)
         THEN /\ p_call' = [op |-> "alloc", arg |-> tag, raised |-> "AssertionError"]
              /\ UNCHANGED <<p_untagged, p_tagged, p_tag_map, p_held>>
         ELSE /\ p_tagged' = p_tagged @@ (tag :> buf)
              /\ p_tag_map' = p_tag_map @@ (buf :> tag)
              /\ p_held' = p_held \cup {buf}
              /\ p_call' = [op |-> "alloc", arg |-> tag, raised |-> "none"]
              /\ UNCHANGED p_untagged
    ELSE IF buf \in p_untagged
         THEN /\ p_call' = [op |-> "alloc", arg |-> tag, raised |-> "AssertionError"]
              /\ UNCHANGED <<p_untagged, p_tagged, p_tag_map, p_held>>
         ELSE /\ p_untagged' = p_untagged \cup {buf}
              /\ p_held' = p_held \cup {buf}
              /\ p_call' = [op |-> "alloc", arg |-> tag, raised |-> "none"]
              /\ UNCHANGED <<p_tagged, p_tag_map>>

\* alloc_temp, a pooled buffer is large enough: self._pool.pop(i)
AllocReuse ==
    \E request \in RequestSizes, tag \in Tags :
        LET sorted == SortBySize(p_pool, p_size)
            i == BisectLeft(sorted, align(request), p_size)
        IN  /\ i <= Len(sorted)
            /\ p_pool' = RemoveAt(sorted, i)
            /\ UNCHANGED p_size
            /\ TrackUsage(sorted[i], tag)
            /\ PoolFrame

\* alloc_temp, every pooled buffer is too small: the largest is popped and
\* orphaned to the requested size
AllocOrphan ==
    \E request \in RequestSizes, tag \in Tags :
        LET sorted == SortBySize(p_pool, p_size)
            i == BisectLeft(sorted, align(request), p_size)
            buf == sorted[Len(sorted)]
        IN  /\ i > Len(sorted)
            /\ Len(sorted) > 0
            /\ p_pool' = RemoveAt(sorted, Len(sorted))
            /\ p_size' = [p_size EXCEPT ![buf] = Max(align(request), p_size[buf])]
            /\ TrackUsage(buf, tag)
            /\ PoolFrame

\* alloc_temp, the pool is empty: self._ctx.buffer(reserve=aligned_size)
AllocCreate ==
    \E request \in RequestSizes, tag \in Tags :
        LET buf == Cardinality(DOMAIN p_size) + 1
        IN  /\ p_pool = <<>>
            /\ buf <= MaxBuffers
            /\ p_size' = p_size @@ (buf :> align(request))
            /\ UNCHANGED p_pool
            /\ TrackUsage(buf, tag)
            /\ PoolFrame

\* free_temp(buffer) of a buffer tracked as in use
FreeTemp ==
    \E buf \in p_held :
        /\ buf \in p_untagged \/ buf \in DOMAIN p_tag_map
        /\ IF buf \in p_untagged
           THEN /\ p_untagged' = p_untagged \ {buf}
                /\ UNCHANGED <<p_tagged, p_tag_map>>
           ELSE /\ p_tagged' = Restrict(p_tagged, DOMAIN p_tagged \ {p_tag_map[buf]})
                /\ p_tag_map' = Restrict(p_tag_map, DOMAIN p_tag_map \ {buf})
                /\ UNCHANGED p_untagged
        /\ p_pool' = Append(p_pool, buf)
        /\ p_call' = [op |-> "free", arg |-> buf, raised |-> "none"]
        /\ UNCHANGED <<p_size, p_held>>
        /\ PoolFrame

\* free_temp(buffer): raise ValueError("Buffer was not tracked as in-use")
FreeTempRaises ==
    \E buf \in p_held :
        /\ buf \notin p_untagged
        /\ buf \notin DOMAIN p_tag_map
        /\ p_call' = [op |-> "free", arg |-> buf, raised |-> "ValueError"]
        /\ UNCHANGED <<p_pool, p_untagged, p_tagged, p_tag_map, p_size, p_held>>
        /\ PoolFrame

\* clear(): the pooled buffers are released (the caller's references to
\* them are dead), every container is emptied
Clear ==
    /\ p_pool' = <<>>
    /\ p_untagged' = {}
    /\ p_tagged' = <<>>
    /\ p_tag_map' = <<>>
    /\ p_held' = p_held \ {p_pool[k] : k \in 1..Len(p_pool)}
    /\ p_call' = [op |-> "clear", arg |-> None, raised |-> "none"]
    /\ UNCHANGED p_size
    /\ PoolFrame

PoolNext ==
    \/ AllocReuse
    \/ AllocOrphan
    \/ AllocCreate
    \/ FreeTemp
    \/ FreeTempRaises
    \/ Clear

\* before the pool is constructed
PoolIdle ==
    PoolInit

\* ------------------------------------------------------------------
\* Shader.build_map
\* ------------------------------------------------------------------
MaxIndex == 3

Origins == {"a.tlang", "b.tlang"}

\* the texts a line of a processed file can hold: a line of code, the last
\* line of a file that does not end with a newline, the replacement of a
\* program attribute and the newline of its line, the same when the line is
\* the last of the file and carries a comment but no newline, the
\* replacement of an include attribute, a preprocessor include
DataCode == <<"x", "\n">>

DataNoNewline == <<"x">>

DataProgram == <<"//<<PROGRAM DEC 'program'>>//", "\n", "\n">>

DataProgramTail == <<"//<<PROGRAM DEC 'program'>>//", "\n", "x">>

DataInclude == <<"{% include 'common' %}", "\n">>

DataHashInclude == <<"#include<test2>", "\n">>

DataMenu ==
    {DataCode, DataNoNewline, DataProgram, DataProgramTail, DataInclude,
     DataHashInclude}

ShaderSourceLine(vctx, data) ==
    [vctx |-> vctx, data |-> data]

\* every line but the last of a file ends with its newline
EndsWithNewline(data) ==
    data[Len(data)] = "\n"

SourceMaps ==
    {m \in UNION {[K -> [vctx : Origins, data : DataMenu]] : K \in SUBSET (1..MaxIndex)} :
        \A k \in DOMAIN m : (\E j \in DOMAIN m : j > k) => EndsWithNewline(m[k].data)}

NoVctx ==
    "None"

MapInit ==
    /\ bm_map \in SourceMaps
    /\ bm_todo = SortedKeys(DOMAIN bm_map)
    /\ prev_index = 0
    /\ prev_vctx = NoVctx
    /\ parts = <<>>
    /\ bm_pc = "loop"

\* ssl.data.count('\n') > 1
Span(data) ==
    CountTok(data, "\n") > 1

\* 'include' in ssl.data, for the tokens of DataMenu
Incl(data) ==
    \E k \in 1..Len(data) : data[k] \in {"{% include 'common' %}", "#include<test2>"}

HeadDirective(index, vctx) ==
    [kind |-> "head", index |-> index, vctx |-> vctx]

TailDirective(index, vctx) ==
    [kind |-> "tail", index |-> index + 1, vctx |-> vctx]

DataPart(index, data) ==
    [kind |-> "data", index |-> index, data |-> data]

\* one iteration of "for index, ssl in sorted(map.items())"
SerializeLine ==
    /\ bm_pc = "loop"
    /\ bm_todo # <<>>
    /\ LET index == Head(bm_todo)
           ssl == bm_map[index]
           span == Span(ssl.data)
           incl == Incl(ssl.data)
           emit == ssl.vctx # prev_vctx \/ (index - prev_index) # 1
       IN  /\ parts' = parts
                \o (IF emit \/ span \/ incl THEN <<HeadDirective(index, ssl.vctx)>> ELSE <<>>)
                \o <<DataPart(index, ssl.data)>>
                \o (IF span \/ incl THEN <<TailDirective(index, ssl.vctx)>> ELSE <<>>)
           /\ prev_index' = index
           /\ prev_vctx' = ssl.vctx
    /\ bm_todo' = Tail(bm_todo)
    /\ UNCHANGED <<bm_map, bm_pc>>
    /\ MapFrame

\* return "".join(parts) + '\n'
SerializeDone ==
    /\ bm_pc = "loop"
    /\ bm_todo = <<>>
    /\ bm_pc' = "done"
    /\ UNCHANGED <<bm_map, bm_todo, prev_index, prev_vctx, parts>>
    /\ MapFrame

MapNext ==
    \/ SerializeLine
    \/ SerializeDone

\* before build_map is called
MapIdle ==
    /\ bm_map = <<>>
    /\ bm_todo = <<>>
    /\ prev_index = 0
    /\ prev_vctx = NoVctx
    /\ parts = <<>>
    /\ bm_pc = "idle"

vars ==
    <<depVars, bindVars, fileVars, bufVars, mgrVars, linkVars, findVars, poolVars, mapVars>>

Init ==
    FileInit /\ DepIdle /\ BindIdle /\ BufIdle /\ MgrIdle /\ LinkIdle /\ FindIdle /\ PoolIdle /\ MapIdle

Next ==
    FileNext

Spec ==
    Init /\ [][Next]_vars

\* the longest file of the runs that are followed to their end
MaxLiveLines ==
    3

InitLive ==
    Init /\ Len(src) <= MaxLiveLines

\* __init__ has returned or raised
FileFinished ==
    f_pc \in {"done", "error"}

\* __init__ is one sequential call: it keeps taking steps until it returns
\* or raises.  This is WF_vars(Next) with ENABLED <<Next>>_vars written out:
\* the guards of FileNext cover every value of f_pc but "done" and "error"
SpecLive ==
    InitLive /\ [][Next]_vars /\ ([]<>FileFinished \/ []<><<Next>>_vars)

InitAttrs ==
    FileInitAttrs /\ DepIdle /\ BindIdle /\ BufIdle /\ MgrIdle /\ LinkIdle /\ FindIdle /\ PoolIdle /\ MapIdle

\* __init__ on the files of AttrLineMenu
SpecAttrs ==
    InitAttrs /\ [][Next]_vars

InitDeps ==
    DepInit /\ BindIdle /\ FileIdle /\ BufIdle /\ MgrIdle /\ LinkIdle /\ FindIdle /\ PoolIdle /\ MapIdle

SpecDeps ==
    InitDeps /\ [][DepNext]_vars

InitBind ==
    BindInit /\ DepIdle /\ FileIdle /\ BufIdle /\ MgrIdle /\ LinkIdle /\ FindIdle /\ PoolIdle /\ MapIdle

SpecBind ==
    InitBind /\ [][BindNext]_vars

InitBuf ==
    BufInit /\ DepIdle /\ BindIdle /\ FileIdle /\ MgrIdle /\ LinkIdle /\ FindIdle /\ PoolIdle /\ MapIdle

SpecBuf ==
    InitBuf /\ [][BufNext]_vars

InitMgr ==
    MgrInit /\ DepIdle /\ BindIdle /\ FileIdle /\ BufIdle /\ LinkIdle /\ FindIdle /\ PoolIdle /\ MapIdle

SpecMgr ==
    InitMgr /\ [][MgrNext]_vars

InitLink ==
    LinkInit /\ DepIdle /\ BindIdle /\ FileIdle /\ BufIdle /\ MgrIdle /\ FindIdle /\ PoolIdle /\ MapIdle

SpecLink ==
    InitLink /\ [][LinkNext]_vars

InitFind ==
    FindInit /\ DepIdle /\ BindIdle /\ FileIdle /\ BufIdle /\ MgrIdle /\ LinkIdle /\ PoolIdle /\ MapIdle

SpecFind ==
    InitFind /\ [][FindStep]_vars

InitPool ==
    PoolInit /\ DepIdle /\ BindIdle /\ FileIdle /\ BufIdle /\ MgrIdle /\ LinkIdle /\ FindIdle /\ MapIdle

SpecPool ==
    InitPool /\ [][PoolNext]_vars

InitMap ==
    MapInit /\ DepIdle /\ BindIdle /\ FileIdle /\ BufIdle /\ MgrIdle /\ LinkIdle /\ FindIdle /\ PoolIdle

SpecMap ==
    InitMap /\ [][MapNext]_vars

\* ------------------------------------------------------------------
\* Graph notions used to state the properties of resolve_dependencies
\* ------------------------------------------------------------------
\* edges that the traversal can follow: both ends registered
Succ(n) ==
    IF n \in modules THEN dps_graph[n] ELSE {}

RECURSIVE ReachFrom(_, _)
ReachFrom(S, k) ==
    IF k = 0 THEN S
    ELSE ReachFrom(S \cup UNION {Succ(n) : n \in S}, k - 1)

\* every name reachable from n over zero or more dependency edges
Reachable(n) ==
    ReachFrom({n}, NumModules)

\* every name reachable from n over one or more dependency edges
ReachablePlus(n) ==
    ReachFrom(Succ(n), NumModules)

OnCycle(n) ==
    n \in ReachablePlus(n)

CycleReachable(n) ==
    \E m \in Reachable(n) : OnCycle(m)

AllRegistered(n) ==
    Reachable(n) \subseteq modules

Finished ==
    d_pc \in {"done", "error"}

\* C4: for an acyclic graph whose referenced modules are all registered,
\* resolve_dependencies never fails and its order holds every module
\* reachable from the file exactly once, each after all of its dependencies,
\* the file itself last.
C4_DependencyFirstOrder ==
    (Finished /\ AllRegistered(d_name) /\ ~CycleReachable(d_name)) =>
        /\ d_pc = "done"
        /\ Range(d_ret) = Reachable(d_name)
        /\ Len(d_ret) = Cardinality(Reachable(d_name))
        /\ d_ret[Len(d_ret)] = d_name
        /\ \A i \in 1..Len(d_ret) : \A dep \in dps_graph[d_ret[i]] :
              \E j \in 1..(i - 1) : d_ret[j] = dep

\* a module re-reached over a second path after it was resolved, in a
\* finished order of three modules
C4_Witness ==
    /\ d_pc = "done"
    /\ Len(d_ret) = 3
    /\ Cardinality(dps_graph[d_name]) = 2
    /\ \E m \in dps_graph[d_name] : dps_graph[m] \cap dps_graph[d_name] # {}

\* C5 (as stated): a circular-dependency error, naming a module on the cycle,
\* is raised if and only if a cycle is reachable from the requested file.
C5_CycleIffError ==
    Finished =>
        /\ (d_err.kind = "circular") <=> CycleReachable(d_name)
        /\ (d_err.kind = "circular") => OnCycle(d_err.node)

\* C5 (amended): a circular-dependency error is raised only when a cycle is
\* reachable and names a module on it; when a cycle is reachable the build
\* fails, with the circular-dependency error if every referenced module is
\* registered (otherwise the missing-dependency error may come first); a
\* forward re-visit alone never fails.
C5_CycleError ==
    Finished =>
        /\ (d_err.kind = "circular") =>
              (CycleReachable(d_name) /\ OnCycle(d_err.node)
                 /\ d_err.node \in Reachable(d_name))
        /\ CycleReachable(d_name) => d_pc = "error"
        /\ AllRegistered(d_name) =>
              ((d_err.kind = "circular") <=> CycleReachable(d_name))

\* a cycle error raised at a module other than the requested file, in a
\* graph whose referenced modules are all registered
C5_Witness ==
    /\ d_err.kind = "circular"
    /\ OnCycle(d_err.node)
    /\ d_err.node # d_name
    /\ AllRegistered(d_name)

\* ------------------------------------------------------------------
\* Properties of inject_bindings
\* ------------------------------------------------------------------
BindingsOf(text) ==
    {text[k].bind : k \in 1..Len(text)}

\* C2: in every returned text, blocks with different names carry different
\* binding numbers and every binding lies in [0, max_bindings).
C2_UniqueBindings ==
    b_pc = "done" =>
        \A t \in 1..Len(binded_modules) :
            /\ \A k, l \in 1..Len(binded_modules[t]) :
                  binded_modules[t][k].name # binded_modules[t][l].name =>
                      binded_modules[t][k].bind # binded_modules[t][l].bind
            /\ \A k \in 1..Len(binded_modules[t]) :
                  binded_modules[t][k].bind \in 0..(max_bindings - 1)

\* names that carry an explicit binding nowhere in the given texts
ImplicitNames ==
    {n \in BlockNames :
        /\ \E t \in 1..Len(b_modules) : \E k \in 1..Len(b_modules[t]) :
              b_modules[t][k].name = n
        /\ \A t \in 1..Len(b_modules) : \A k \in 1..Len(b_modules[t]) :
              b_modules[t][k].name = n => b_modules[t][k].bind = NoBinding}

\* C3: a block name without explicit binding is written with one and the
\* same binding number in every text, and in every occurrence in a text.
C3_ConsistentAcrossTexts ==
    b_pc = "done" =>
        \A n \in ImplicitNames :
            \A t, u \in 1..Len(binded_modules) :
                \A k \in 1..Len(binded_modules[t]), l \in 1..Len(binded_modules[u]) :
                    (binded_modules[t][k].name = n /\ binded_modules[u][l].name = n) =>
                        binded_modules[t][k].bind = binded_modules[u][l].bind

\* ------------------------------------------------------------------
\* Line ownership (C1)
\* ------------------------------------------------------------------
\* the mappings that have index idx as a key: 0 stands for the global
\* src_map, i >= 1 for the line_body of funcs[i]
Owners(idx) ==
    {o \in 0..Len(funcs) :
        IF o = 0 THEN idx \in DOMAIN src_map
        ELSE idx \in DOMAIN funcs[o].line_body}

AllKeys ==
    DOMAIN src_map \cup UNION {DOMAIN funcs[i].line_body : i \in 1..Len(funcs)}

\* C1: from extract_funcs on (attribute processing, module creation and the
\* states an exception leaves behind included) every original line index
\* 1..N is a key of exactly one mapping among src_map and the line_body maps
\* of the functions, and no other key exists
C1_LinePartition ==
    /\ \A idx \in 1..Len(src) : Cardinality(Owners(idx)) = 1
    /\ AllKeys = 1..Len(src)

\* a finished file with a function, a global remainder and a global line
\* whose text was rewritten by attribute processing
C1_Witness ==
    /\ f_pc = "done"
    /\ Len(funcs) >= 1
    /\ \E k \in DOMAIN src_map : src_map[k] # src[k]
    /\ \E i \in 1..Len(funcs) : \E k \in DOMAIN funcs[i].line_body :
          funcs[i].line_body[k] # src[k]

\* ------------------------------------------------------------------
\* Stages and programs (C6, C7)
\* ------------------------------------------------------------------
\* the dispatches of global shader attributes that resolved to funcs[i]
ShaderDispatches(i) ==
    {k \in 1..Len(dispatched) :
        /\ dispatched[k].name = "shader"
        /\ dispatched[k].ctx = "global"
        /\ find_next(funcs, dispatched[k].index) = i}

\* C6: the stage of a function is None until the first shader attribute
\* that resolves to it, is the stage of that attribute from then on, and a
\* second shader attribute that resolves to the same function ends the file
\* with the error "Function already has a stage set."; no step changes a
\* stage that is set
C6_StageSetOnce ==
    /\ [](\A i \in 1..Len(funcs) :
            /\ ShaderDispatches(i) = {} => funcs[i].stage = None
            /\ ShaderDispatches(i) # {} =>
                  funcs[i].stage = from_token(dispatched[Min(ShaderDispatches(i))].args[1])
            /\ Cardinality(ShaderDispatches(i)) >= 2 =>
                  /\ f_pc = "error"
                  /\ f_err = "stage already set"
                  /\ Cardinality(ShaderDispatches(i)) = 2)
    /\ [][\A i \in 1..Len(funcs) :
            funcs[i].stage # None =>
                i <= Len(funcs') /\ funcs'[i].stage = funcs[i].stage]_vars

\* a vertex function hit by a second shader attribute, of another stage
C6_Witness ==
    /\ f_err = "stage already set"
    /\ \E i \in 1..Len(funcs) :
          /\ funcs[i].stage = "vert"
          /\ \E k \in ShaderDispatches(i) : dispatched[k].args = <<"compute">>

\* the mapping the claim gives for the program attributes of the model
ExpectedStages(attr) ==
    IF attr.kwargs = <<<<"vert", "vs">>, <<"frag", "fs">>>>
    THEN [vert |-> "vs", frag |-> "fs"]
    ELSE [vert |-> "v2"]

\* C7: once the first program attribute of a file is processed, program
\* 'main' is registered with the stages of that attribute (vert='vs',
\* frag='fs' gives {vert: vs, frag: fs}; the alias vertex='v2' gives
\* {vert: v2}); a second program attribute named 'main' ends the file with
\* "Program 'main' is already defined" and the registration stays what the
\* first attribute made it
C7_ProgramRegistration ==
    /\ cur_attr >= 2 =>
          programs = [n \in {"main"} |-> ExpectedStages(glob_attrs[1])]
    /\ cur_attr <= 2
    /\ f_pc = "done" => Len(glob_attrs) <= 1
    /\ (f_pc = "global_attrs" /\ cur_attr = 1) => programs = <<>>
    /\ f_err = "program already defined" =>
          /\ Len(glob_attrs) >= 2
          /\ glob_attrs[2].name = "program"
          /\ programs = [n \in {"main"} |-> ExpectedStages(glob_attrs[1])]

\* [program('main', vert='vs', frag='fs')] first, then a program attribute
\* that names 'main' again with other stages
C7_Witness ==
    /\ f_err = "program already defined"
    /\ glob_attrs[1].kwargs = <<<<"vert", "vs">>, <<"frag", "fs">>>>
    /\ glob_attrs[2].kwargs = <<<<"vertex", "v2">>>>
    /\ programs["main"] = [vert |-> "vs", frag |-> "fs"]

\* ------------------------------------------------------------------
\* Brace balance (C8)
\* ------------------------------------------------------------------
\* the positions of the text after the header token of line h
PositionsAfter(h) ==
    UNION {{<<l, k>> : k \in 1..Len(src[l])} : l \in h..Len(src)} \ {<<h, 1>>}

AtOrBefore(p, q) ==
    p[1] < q[1] \/ (p[1] = q[1] /\ p[2] <= q[2])

\* depth after position q: 1, plus the opening braces, minus the closing
\* braces of the positions up to q
DepthAfter(h, q) ==
    1 + Cardinality({p \in PositionsAfter(h) :
                        AtOrBefore(p, q) /\ src[p[1]][p[2]] \in {"{", "H"}})
      - Cardinality({p \in PositionsAfter(h) :
                        AtOrBefore(p, q) /\ src[p[1]][p[2]] = "}"})

ZeroPositions(h) ==
    {q \in PositionsAfter(h) : DepthAfter(h, q) = 0}

FirstZeroLine(h) ==
    Min({q[1] : q \in ZeroPositions(h)})

\* the header line of funcs[i]: the match starts at line_start, after the
\* blank lines the pattern takes with it
HeaderOf(i) ==
    Min({l \in funcs[i].line_start..Len(src) : IsHeaderLine(l)})

\* extract_funcs is running, or has just returned its FunctionList
Extracting ==
    \/ f_pc = "extract"
    \/ f_pc = "func_ctx" /\ cur_func = 1 /\ cur_i = 1

\* C8: the SyntaxError is raised only for a header whose depth never reaches
\* 0 before the end of the text; every function extracted has a position of
\* depth 0 and ends on the line of the first one; and when extract_funcs
\* returns every header line lies in an extracted function, so no header
\* with unbalanced braces was passed over
C8_BraceBalance ==
    /\ f_err = "unmatched brace" =>
          IsHeaderLine(search_pos) /\ ZeroPositions(search_pos) = {}
    /\ Extracting =>
          \A i \in 1..Len(funcs) :
              /\ ZeroPositions(HeaderOf(i)) # {}
              /\ funcs[i].line_end = FirstZeroLine(HeaderOf(i))
    /\ (Extracting /\ f_pc = "func_ctx") =>
          \A h \in 1..Len(src) : IsHeaderLine(h) =>
              \E i \in 1..Len(funcs) : h \in funcs[i].line_start..funcs[i].line_end

\* a function that closes on a later line than its header, then a header
\* that is never closed
C8_Witness ==
    /\ f_err = "unmatched brace"
    /\ Len(funcs) >= 1
    /\ \E i \in 1..Len(funcs) : funcs[i].line_end > HeaderOf(i)

\* ------------------------------------------------------------------
\* Attribute blocks (C9, C10)
\* ------------------------------------------------------------------
\* C9: a logical unit whose count of "[" minus "]" is still positive when
\* the scan runs out of lines ends the file with an error
C9_UnclosedBlockFatal ==
    unclosed # {} => f_pc = "error"

\* the mapping that owns line k, and its text there
TextAt(k) ==
    IF k \in DOMAIN src_map THEN src_map[k]
    ELSE funcs[CHOOSE i \in 1..Len(funcs) : k \in DOMAIN funcs[i].line_body].line_body[k]

\* the unit that starts at line k has been processed in context ctx
Processed(k, ctx) ==
    \/ ctx = "global" /\ k \in DOMAIN src_map /\
          \/ f_pc \in {"function_attrs", "global_attrs", "done"}
          \/ f_pc = "glob_ctx" /\ cur_i > Cardinality({j \in DOMAIN src_map : j <= k})
          \/ f_pc = "error" /\ f_err # "unmatched brace" /\
                \E d \in 1..Len(dispatched) :
                    dispatched[d].ctx = "global" /\ dispatched[d].index >= k
    \/ ctx = "function" /\ k \notin DOMAIN src_map /\ f_pc \notin {"extract", "func_ctx"}
          /\ f_err # "unmatched brace"

\* no line before k leaves a "[" open, so a unit starts at line k
NoOpenBefore(k) ==
    \A j \in 1..(k - 1) : src[j] # OpenProgB

DispatchesOf(k, ctx) ==
    SelectSeq(dispatched, LAMBDA e : e.index = k /\ e.ctx = ctx)

Names(log) ==
    [d \in 1..Len(log) |-> log[d].name]

Handled(log) ==
    [d \in 1..Len(log) |-> log[d].handled]

\* C10: no file ends with an error for an unhandled attribute; the line
\* "[bogus, shader('compute')] x" that starts a unit dispatches
\* both attributes, the unknown one first, and its text becomes the text
\* of the handled attribute followed by the rest of the line (in a function
\* body, where neither name has a handler, just the rest of the line); the
\* two-line block "[program(...)," / "unroll]" dispatches both attributes in
\* either context, and the one with a handler gives the text
C10_UnhandledIsSkipped ==
    /\ f_err \in {NoFileErr, "unmatched brace", "stage already set",
                  "program already defined"}
    /\ \A d \in 1..Len(dispatched) :
          ~dispatched[d].handled =>
              \/ dispatched[d].ctx = "function"
                    /\ dispatched[d].name \notin DOMAIN FUNC_CTX_ATTR_MAP
              \/ dispatched[d].ctx = "global"
                    /\ dispatched[d].name \notin {"shader", "program"}
    /\ \A k \in 1..Len(src) :
          /\ (src[k] = BogusShaderC /\ Processed(k, "global") /\ NoOpenBefore(k)) =>
                /\ Names(DispatchesOf(k, "global")) = <<"bogus", "shader">>
                /\ Handled(DispatchesOf(k, "global")) = <<FALSE, TRUE>>
                /\ TextAt(k) = IF f_err = "stage already set"
                                  /\ dispatched[Len(dispatched)].index = k
                               THEN <<"\n">>
                               ELSE <<"//<<SHADER STAGE DECL'>>//", "\n", "x", "\n">>
          /\ (src[k] = BogusShaderC /\ Processed(k, "function") /\ NoOpenBefore(k)) =>
                /\ Names(DispatchesOf(k, "function")) = <<"bogus", "shader">>
                /\ Handled(DispatchesOf(k, "function")) = <<FALSE, FALSE>>
                /\ TextAt(k) = <<"x", "\n">>
          /\ (src[k] = OpenProgB /\ k < Len(src) /\ src[k + 1] = CloseUnroll
                /\ Processed(k, "function") /\ k + 1 \notin DOMAIN src_map
                /\ NoOpenBefore(k)) =>
                /\ Names(DispatchesOf(k, "function")) = <<"program", "unroll">>
                /\ Handled(DispatchesOf(k, "function")) = <<FALSE, TRUE>>
                /\ TextAt(k) = <<"\n">>
                /\ TextAt(k + 1) = <<"#pragma unroll", "\n">>

\* a finished file where an unknown attribute was skipped in a block and the
\* shader attribute after it set the stage of the function that follows,
\* and a later line was still processed
C10_Witness ==
    /\ f_pc = "done"
    /\ \E d \in 1..Len(dispatched) :
          /\ dispatched[d].name = "bogus"
          /\ dispatched[d].ctx = "global"
          /\ \E e \in (d + 2)..Len(dispatched) : dispatched[e].index > dispatched[d].index
    /\ \E i \in 1..Len(funcs) : funcs[i].stage = "comp"

\* ------------------------------------------------------------------
\* Text outside the attribute syntax (C11)
\* ------------------------------------------------------------------
\* the tokens of a line that are not brackets and not between a "[" and
\* its "]", in order
OutsideBrackets(line) ==
    SelectSeq([p \in 1..Len(line) |->
                  IF /\ line[p] \notin {"[", "]"}
                     /\ CountTok(SubSeq(line, 1, p), "[") = CountTok(SubSeq(line, 1, p), "]")
                  THEN line[p] ELSE "]"],
              LAMBDA t : t # "]")

\* what the claim leaves of a line: all of it when it is not an attribute
\* line, the text outside its blocks when it is one
ExpectedText(line) ==
    IF StartsAttr(line) THEN OutsideBrackets(line) ELSE line

\* a text without what the handlers put in: the markers come with a
\* newline of their own, the pragmas without one
RECURSIVE WithoutHandlerOutput(_)
WithoutHandlerOutput(s) ==
    IF s = <<>> THEN <<>>
    ELSE IF s[1] \in {"//<<SHADER STAGE DECL'>>//", "//<<PROGRAM DEC 'program'>>//"}
    THEN WithoutHandlerOutput(SubSeq(s, 3, Len(s)))
    ELSE IF s[1] \in {FUNC_CTX_ATTR_MAP[n] : n \in DOMAIN FUNC_CTX_ATTR_MAP}
    THEN WithoutHandlerOutput(Tail(s))
    ELSE <<s[1]>> \o WithoutHandlerOutput(Tail(s))

\* every logical unit of the file is one line
SingleLineUnits ==
    \A j \in 1..Len(src) : src[j] # OpenProgB

\* C11: in a finished file whose attribute blocks all close on their own
\* line, every line holds, besides the output of the handlers, exactly the
\* text it had outside its attribute blocks, once and in order
C11_TextPreserved ==
    (f_pc = "done" /\ SingleLineUnits) =>
        \A k \in 1..Len(src) : WithoutHandlerOutput(TextAt(k)) = ExpectedText(src[k])

\* ------------------------------------------------------------------
\* Reservation scan and popularity assignment (C12, C13, C14)
\* ------------------------------------------------------------------
\* the declarations of all the texts given to inject_bindings
Decls ==
    UNION {Range(b_modules[i]) : i \in 1..Len(b_modules)}

ExplicitDecls ==
    {d \in Decls : HasBinding(d)}

ExplicitConflict ==
    \E d, e \in ExplicitDecls : d.name = e.name /\ d.bind # e.bind

ExplicitOverLimit ==
    \E d \in ExplicitDecls : d.bind >= max_bindings

\* the reservation scan has ended without raising
ScanPassed ==
    b_pc \in {"assign", "patch", "done", "error_out_of_bindings"}

\* C12: when the reservation scan ends without an error, no block name has
\* two different explicit bindings in the texts, no explicit binding is
\* >= max_bindings, and every explicit binding is marked unavailable
C12_ExplicitBindingsChecked ==
    ScanPassed =>
        /\ ~ExplicitConflict
        /\ ~ExplicitOverLimit
        /\ \A d \in ExplicitDecls : ~free_bindings[d.bind]

\* no declaration carries a memory qualifier
Unqualified ==
    \A d \in Decls : d.qual = ""

\* the block names that have no explicit binding anywhere
ImplicitOnly ==
    {d.name : d \in Decls} \ {d.name : d \in ExplicitDecls}

\* the slots left free by the explicit bindings
FreeAfterScan ==
    max_bindings - Cardinality({d.bind : d \in ExplicitDecls})

\* C13: texts are returned only when the block names without an explicit
\* binding are no more than the slots the reservation scan left free (stated
\* for texts without qualifiers, which the scan reads in full)
C13_OutOfBindingsFatal ==
    (Unqualified /\ b_pc = "done") => Cardinality(ImplicitOnly) <= FreeAfterScan

\* popularity: the number of texts a block name appears in
Popularity(n) ==
    Cardinality({i \in 1..Len(b_modules) : \E d \in Range(b_modules[i]) : d.name = n})

ProcessedBefore(a, b) ==
    \/ Popularity(a) < Popularity(b)
    \/ Popularity(a) = Popularity(b) /\ NameRank[a] < NameRank[b]

\* C14: once the bindings are assigned, of two block names without an
\* explicit binding the one that is less popular (by name on a tie) has the
\* lower binding (stated for texts without qualifiers)
C14_AscendingPopularity ==
    (Unqualified /\ b_pc \in {"patch", "done"}) =>
        \A a, b \in ImplicitOnly \cap DOMAIN canon :
            ProcessedBefore(a, b) => canon[a] < canon[b]

\* ------------------------------------------------------------------
\* Missing dependencies (C15)
\* ------------------------------------------------------------------
\* C15 (as stated): a build whose dependency closure references an
\* unregistered name ends with the missing-dependency error, which names an
\* unregistered module of the closure, and returns no order
C15_MissingDependency ==
    (Finished /\ ~AllRegistered(d_name)) =>
        /\ d_pc = "error"
        /\ d_err.kind = "missing"
        /\ d_err.node \in Reachable(d_name) \ modules

\* C15 (amended): such a build always fails and returns no order; the error
\* is the missing-dependency error unless a cycle is reachable from the file
\* and is met first; a missing-dependency error is raised only for, and
\* names, an unregistered module of the closure
C15_MissingOrCycle ==
    Finished =>
        /\ ~AllRegistered(d_name) =>
              /\ d_pc = "error"
              /\ d_err.kind \in {"missing", "circular"}
              /\ ~CycleReachable(d_name) => d_err.kind = "missing"
        /\ d_err.kind = "missing" =>
              /\ d_pc = "error"
              /\ d_err.node \in Reachable(d_name) \ modules

\* the unregistered name is referenced by a dependency of the file, not by
\* the file itself
C15_Witness ==
    /\ d_err.kind = "missing"
    /\ d_err.node \notin dps_graph[d_name]
    /\ d_err.node \notin modules
    /\ Len(d_stack) = 2

\* ------------------------------------------------------------------
\* Dead-buffer elimination
\* ------------------------------------------------------------------
\* the field names a line of fields declares: every name of every statement
\* of the line that is not its type, array suffix stripped
StatementStart(line, i) ==
    i = 1 \/ line[i - 1] = ";"

DeclaredNames(line) ==
    IF Len(line) = 0 \/ line[1] = "//"
        THEN {}
        ELSE {StripArray(line[i]) : i \in {j \in 1..Len(line) :
                    /\ line[j] \notin {",", ";"}
                    /\ ~StatementStart(line, j)}}

BufferPositions ==
    {p \in 1..Len(buf_src) : buf_src[p].kind = "buffer"}

Referenced(p) ==
    DeclaredNames(buf_src[p].line) \cap RestWords(buf_src, p) # {}

RemovedAt(p) ==
    \A q \in 1..Len(buf_out) : buf_out[q] # buf_src[p]

\* C16: remove_unused_buffers removes a buffer block if and only if none of
\* its declared field names (array suffixes stripped) occurs as a whole word
\* outside the block's own declaration; when every block is referenced the
\* text is returned unchanged
C16_RemovedIffUnreferenced ==
    buf_pc = "done" =>
        /\ \A p \in BufferPositions : RemovedAt(p) <=> ~Referenced(p)
        /\ (\A p \in BufferPositions : Referenced(p)) => buf_out = buf_src

\* ------------------------------------------------------------------
\* ShaderManager: extensions of a shader, files of a batch
\* ------------------------------------------------------------------
\* the entries of F itself and of every module reachable from F
TransitiveExt(f) ==
    UNION {m_own[n] : n \in MgrReach({f}) \cap FileNames}

\* C17: the consolidated extension set of the Shader of a file F contains
\* every extension entry of F and of every module transitively reachable
\* from F through dependencies, whatever the order of processing
C17_TransitiveExtensions ==
    \A f \in DOMAIN shaders : TransitiveExt(f) \subseteq shaders[f]

\* a file that cannot be processed or built on its own account: its
\* processor raises, it includes a module that does not exist, or it lies
\* on a cycle of includes
RECURSIVE FileReach(_)
FileReach(S) ==
    LET T == S \cup UNION {m_dps[n] : n \in S \cap FileNames}
    IN  IF T = S THEN S ELSE FileReach(T)

Faulty(f) ==
    \/ f = m_fatal
    \/ NoSuchFile \in m_dps[f]
    \/ f \in FileReach(m_dps[f])

DependsOnFaulty(f) ==
    \E g \in FileReach({f}) \cap FileNames : Faulty(g)

MgrFinished ==
    m_pc \in {"done", "raised"}

\* C18: when one file of a batch hits a fatal error, every file that does
\* not depend on it is still processed and its shader is still built
C18_IndependentFilesBuilt ==
    MgrFinished =>
        \A f \in FileNames : ~DependsOnFaulty(f) => f \in DOMAIN shaders

\* ------------------------------------------------------------------
\* Program linking
\* ------------------------------------------------------------------
\* C19: a declared program without a vertex stage, or naming a vertex
\* function that was not assembled, is a fatal error propagated to the
\* caller of _build; an absent optional stage is not supplied to the link
C19_MissingVertexPropagates ==
    /\ l_pc = "done" => \A k \in 1..Len(l_programs) : VertexFound(l_programs[k])
    /\ \A k \in DOMAIN linked : \A s \in OptionalStages :
            s \notin DOMAIN l_programs[k] => linked[k][s] = None

\* ------------------------------------------------------------------
\* The module of a file
\* ------------------------------------------------------------------
HelperFuncs ==
    {i \in 1..Len(funcs) : funcs[i].stage = None}

StageFuncsOfFile ==
    {i \in 1..Len(funcs) : funcs[i].stage # None}

\* C20: after the processor finishes, the key set of the module is the keys
\* of the global remainder plus the line_body keys of the functions whose
\* stage is None: every line of an untagged function is in the module, no
\* line of a stage-tagged function is
C20_ModuleKeys ==
    f_pc = "done" =>
        /\ DOMAIN module =
              DOMAIN src_map \cup UNION {DOMAIN funcs[i].line_body : i \in HelperFuncs}
        /\ \A i \in HelperFuncs : DOMAIN funcs[i].line_body \subseteq DOMAIN module
        /\ \A i \in StageFuncsOfFile : DOMAIN funcs[i].line_body \cap DOMAIN module = {}

\* a finished file with a helper function and a stage-tagged function
C20_Witness ==
    /\ f_pc = "done"
    /\ HelperFuncs # {}
    /\ StageFuncsOfFile # {}
    /\ \E i \in StageFuncsOfFile : funcs[i].line_body # <<>>

\* ------------------------------------------------------------------
\* find_next
\* ------------------------------------------------------------------
StartsOf(fl) ==
    {fl[i].line_start : i \in 1..Len(fl)}

\* C22 as stated: find_next(line) returns the function with the smallest
\* line_start that is >= line, and None when no function starts at or after
\* the line
C22_FindNextAtOrAfter ==
    /\ fn_pc = "found" =>
          /\ fn_items[fn_found].line_start >= fn_line
          /\ \A s \in StartsOf(fn_items) : s >= fn_line => fn_items[fn_found].line_start <= s
    /\ fn_pc = "none" => \A s \in StartsOf(fn_items) : s < fn_line

\* C22, amended: find_next(line) returns the function with the smallest
\* line_start strictly greater than line (a line equal to a function's own
\* start returns the function after it), and None when no function starts
\* after the line
C22_FindNextAfter ==
    /\ fn_pc = "found" =>
          /\ fn_items[fn_found].line_start > fn_line
          /\ \A s \in StartsOf(fn_items) : s > fn_line => fn_items[fn_found].line_start <= s
    /\ fn_pc = "none" => \A s \in StartsOf(fn_items) : s <= fn_line

\* the line is the start of a function that has a successor, which is found
C22_Witness ==
    /\ fn_pc = "found"
    /\ fn_found > 1
    /\ fn_items[fn_found - 1].line_start = fn_line

\* ------------------------------------------------------------------
\* BufferPool
\* ------------------------------------------------------------------
Pooled ==
    {p_pool[k] : k \in 1..Len(p_pool)}

InUse ==
    p_untagged \cup DOMAIN p_tag_map \cup {p_tagged[t] : t \in DOMAIN p_tagged}

PoolConsistent ==
    /\ Pooled \cap InUse = {}
    /\ \A j, k \in 1..Len(p_pool) : p_pool[j] = p_pool[k] => j = k
    /\ \A t \in DOMAIN p_tagged :
          p_tagged[t] \in DOMAIN p_tag_map /\ p_tag_map[p_tagged[t]] = t
    /\ \A b \in DOMAIN p_tag_map :
          p_tag_map[b] \in DOMAIN p_tagged /\ p_tagged[p_tag_map[b]] = b

\* a call of free_temp on a buffer that is not tracked as in use
FreeOfUntracked ==
    /\ p_call'.op = "free"
    /\ p_call'.arg \notin p_untagged
    /\ p_call'.arg \notin DOMAIN p_tag_map

\* C29: after any sequence of alloc_temp, free_temp and clear no buffer is
\* both in the free pool and tracked as in use, no buffer is twice in the
\* free pool, the tag and buffer maps are inverse to each other; freeing a
\* buffer that is not tracked as in use raises ValueError and changes nothing
C29_PoolConsistency ==
    /\ []PoolConsistent
    /\ [][FreeOfUntracked =>
            /\ p_call'.raised = "ValueError"
            /\ UNCHANGED <<p_pool, p_untagged, p_tagged, p_tag_map, p_size>>]_vars

\* a second free of a buffer that is back in the pool was refused while a
\* tagged buffer is in use
C29_Witness ==
    /\ p_call.op = "free"
    /\ p_call.raised = "ValueError"
    /\ p_call.arg \in Pooled
    /\ DOMAIN p_tagged # {}
    /\ p_untagged # {}

\* C30: alloc_temp with a tag that is already in use fails and leaves the
\* pool state unchanged: the free pool holds the same buffers, the in-use
\* and tag maps are unchanged
C30_FailedAllocKeepsPool ==
    [][(p_call'.op = "alloc" /\ p_call'.arg \in DOMAIN p_tagged) =>
            /\ p_call'.raised # "none"
            /\ {p_pool'[k] : k \in 1..Len(p_pool')} = Pooled
            /\ UNCHANGED <<p_untagged, p_tagged, p_tag_map>>]_vars

\* ------------------------------------------------------------------
\* Line directives of build_map
\* ------------------------------------------------------------------
\* the physical lines a text occupies when it is written out
PhysicalLines(data) ==
    CountTok(data, "\n") + (IF data # <<>> /\ data[Len(data)] # "\n" THEN 1 ELSE 0)

SpansLines(data) ==
    PhysicalLines(data) > 1

\* the index emitted before k, 0 for the first
PreviousKey(k) ==
    IF \E j \in DOMAIN bm_map : j < k
    THEN CHOOSE j \in DOMAIN bm_map : j < k /\ \A i \in DOMAIN bm_map : i < k => i <= j
    ELSE 0

OriginDiffers(k) ==
    PreviousKey(k) = 0 \/ bm_map[PreviousKey(k)].vctx # bm_map[k].vctx

HasHead(k) ==
    \E n \in 1..Len(parts) : parts[n] = HeadDirective(k, bm_map[k].vctx)

HasTail(k) ==
    \E n \in 1..Len(parts) : parts[n] = TailDirective(k, bm_map[k].vctx)

\* C27: build_map emits a leading #line before a line exactly when its
\* origin differs from the previous line's, or its index is not the previous
\* index + 1, or its text spans several physical lines, or it contains an
\* include marker; and a trailing #line exactly when the text spans several
\* physical lines or contains an include marker
C27_LineDirectives ==
    bm_pc = "done" =>
        \A k \in DOMAIN bm_map :
            /\ HasHead(k) <=> \/ OriginDiffers(k)
                              \/ k # PreviousKey(k) + 1
                              \/ SpansLines(bm_map[k].data)
                              \/ Incl(bm_map[k].data)
            /\ HasTail(k) <=> \/ SpansLines(bm_map[k].data)
                              \/ Incl(bm_map[k].data)

\* ------------------------------------------------------------------
\* The template text of _build
\* ------------------------------------------------------------------
ReferencesTo(dep) ==
    {k \in 1..Len(d_tmpl) : d_tmpl[k] = IncludeDirective(dep)}

BodyPosition ==
    CHOOSE k \in 1..Len(d_tmpl) : d_tmpl[k] = ModuleBody(d_name)

\* C23: the text _build hands to the renderer references each transitively
\* required dependency exactly once, the directives the include handler
\* left in the module text included, and every reference precedes the
\* file's own body
C23_EachDependencyOnce ==
    d_pc = "done" =>
        \A dep \in Reachable(d_name) \ {d_name} :
            /\ Cardinality(ReferencesTo(dep)) = 1
            /\ \A k \in ReferencesTo(dep) : k < BodyPosition

\* ------------------------------------------------------------------
\* Logical units of attribute processing
\* ------------------------------------------------------------------
\* the mapping a unit was processed in, as it is now
MapOf(u) ==
    IF u.ctx = "global" THEN src_map ELSE funcs[u.func].line_body

MultiLine(u) ==
    u.last > u.first

\* C24: the replacement text of a multi-line attribute block spanning
\* s..e is stored at s, the first line of the block, and every other index
\* s+1..e holds a single newline
C24_StoredAtFirstLine ==
    \A n \in 1..Len(units) :
        MultiLine(units[n]) =>
            /\ MapOf(units[n])[units[n].first] = units[n].repl
            /\ \A k \in (units[n].first + 1)..units[n].last :
                    MapOf(units[n])[k] = <<"\n">>

\* the units of one mapping, in the order they were processed
UnitsOf(ctx, func) ==
    SelectSeq(units, LAMBDA u : u.ctx = ctx /\ u.func = func)

KeysOf(ctx, func) ==
    IF ctx = "global" THEN DOMAIN src_map ELSE DOMAIN funcs[func].line_body

\* process_attrs has been entered
AttrsStarted ==
    f_pc \notin {"idle", "extract"} /\ f_err # "unmatched brace"

\* the loop over the mapping has ended
LoopOver(ctx, func) ==
    IF ctx = "global"
    THEN \/ f_pc \in {"function_attrs", "global_attrs", "done"}
         \/ f_err \in {"missing program name", "program already defined"}
    ELSE AttrsStarted /\ (f_pc = "func_ctx" => cur_func > func)

UnitsInOrder(ctx, func) ==
    LET us == UnitsOf(ctx, func)
        keys == KeysOf(ctx, func)
    IN  /\ \A n \in 1..Len(us) :
              /\ us[n].first \in keys
              /\ us[n].last \in keys
              /\ us[n].first <= us[n].last
              /\ LET rest == {k \in keys : n > 1 => k > us[n - 1].last}
                 IN  rest # {} /\ us[n].first = Min(rest)
        /\ LoopOver(ctx, func) =>
              \A k \in keys : \E n \in 1..Len(us) : us[n].first <= k /\ k <= us[n].last

AllUnitsInOrder ==
    /\ UnitsInOrder("global", 0)
    /\ \A f \in 1..Len(funcs) : UnitsInOrder("function", f)

\* C25: attribute processing of a mapping terminates and handles every
\* line index exactly once: units are taken in ascending order, the unit
\* after one that ended at e starts at the smallest key greater than e, no
\* index is processed twice and none is skipped
C25_EveryIndexOnce ==
    /\ []AllUnitsInOrder
    /\ <>FileFinished

\* a finished file with a unit of several lines followed by another unit
C25_Witness ==
    /\ f_pc = "done"
    /\ \E n \in 1..(Len(units) - 1) :
          /\ units[n].ctx = "global"
          /\ MultiLine(units[n])
          /\ units[n + 1].ctx = "global"

\* ------------------------------------------------------------------
\* Global attributes that bind to functions
\* ------------------------------------------------------------------
\* a pass of the loop of _attach_glob_ctx_attrs that returned
GlobalUnitDone ==
    f_pc = "glob_ctx" /\ Len(units') = Len(units) + 1

\* the line index at which the unit of that pass began
UnitStart ==
    units'[Len(units')].first

\* the function whose first line is l, 0 when there is none
FunctionAt(l) ==
    IF \E i \in 1..Len(funcs) : funcs[i].line_start = l
    THEN CHOOSE i \in 1..Len(funcs) : funcs[i].line_start = l
    ELSE 0

LocalSize64 ==
    <<"layout(local_size_x=", "64", ", local_size_y=", "1", ", local_size_z=", "1",
      ") in;">>

\* C21: the line [shader('compute'), numthreads(64)] placed immediately
\* before a function sets the stage of that function to compute and appends
\* exactly one line layout(local_size_x=64, local_size_y=1, local_size_z=1) in;
\* to its config, the missing components being 1
C21_ComputeNumthreads ==
    [][(/\ GlobalUnitDone
        /\ src[UnitStart] = ShaderCNum
        /\ FunctionAt(UnitStart + 1) # 0)
       => LET i == FunctionAt(UnitStart + 1)
          IN  /\ funcs'[i].stage = "comp"
              /\ funcs'[i].config = Append(funcs[i].config, LocalSize64)]_vars

\* a finished file in which such a line came right before a function that
\* had no other attribute
C21_Witness ==
    /\ f_pc = "done"
    /\ \E l \in 1..(Len(src) - 1) :
          /\ src[l] = ShaderCNum
          /\ FunctionAt(l + 1) # 0
          /\ funcs[FunctionAt(l + 1)].stage = "comp"
          /\ funcs[FunctionAt(l + 1)].config = <<LocalSize64>>

\* a pass of the loop of _attach_glob_ctx_attrs is about to run
GlobalUnitNext ==
    f_pc = "glob_ctx" /\ cur_i <= Cardinality(DOMAIN src_map)

\* the line index at which that pass begins
GlobalLine ==
    SortedKeys(DOMAIN src_map)[cur_i]

\* the first function whose line_start is greater than l, 0 when none is
FollowingFunction(l) ==
    IF \E i \in 1..Len(funcs) : funcs[i].line_start > l
    THEN CHOOSE i \in 1..Len(funcs) :
            /\ funcs[i].line_start > l
            /\ \A j \in 1..Len(funcs) :
                  funcs[j].line_start > l => funcs[i].line_start <= funcs[j].line_start
    ELSE 0

\* the step leaves stage, attrs and config of function i as they were
Untouched(i) ==
    /\ funcs'[i].stage = funcs[i].stage
    /\ funcs'[i].attrs = funcs[i].attrs
    /\ funcs'[i].config = funcs[i].config

\* lines that hold a program, include or extend attribute only
GlobalOnlyLines ==
    {ProgA, InclLib, ExtendX}

\* the lines in front of function i back to the function before it
LinesBefore(i) ==
    {l \in 1..(funcs[i].line_start - 1) :
        \A j \in 1..Len(funcs) : funcs[j].line_start < funcs[i].line_start
                                    => funcs[j].line_end < l}

\* function i is preceded by program, include or extend attributes only
HelperFunction(i) ==
    /\ LinesBefore(i) # {}
    /\ \A l \in LinesBefore(i) : src[l] \in GlobalOnlyLines

HelpersUntouched ==
    \A i \in 1..Len(funcs) :
        HelperFunction(i) =>
            /\ funcs[i].stage = None
            /\ funcs[i].attrs = <<>>
            /\ funcs[i].config = <<>>

\* C26: a global attribute that begins at line L modifies only the first
\* function whose line_start is greater than L and leaves stage, attrs and
\* config of every other function unchanged (nothing when no function
\* follows); program, include and extend attributes modify no function, so a
\* function preceded only by such attributes keeps stage None and empty
\* attrs and config
C26_OnlyNextFunction ==
    /\ []HelpersUntouched
    /\ [][GlobalUnitNext =>
            /\ Len(funcs') = Len(funcs)
            /\ \A i \in 1..Len(funcs) :
                  i # FollowingFunction(GlobalLine) => Untouched(i)
            /\ src[GlobalLine] \in GlobalOnlyLines =>
                  \A i \in 1..Len(funcs) : Untouched(i)]_vars

\* a finished file with a helper function behind a program attribute and a
\* later function that attributes were bound to
C26_Witness ==
    /\ f_pc = "done"
    /\ \E i \in 1..Len(funcs) : \E j \in (i + 1)..Len(funcs) :
          /\ HelperFunction(i)
          /\ ProgA \in {src[l] : l \in LinesBefore(i)}
          /\ funcs[i].stage = None
          /\ funcs[j].stage # None
          /\ funcs[j].config # <<>>

\* ------------------------------------------------------------------
\* Order of the config lines
\* ------------------------------------------------------------------
\* the layout lines _emit_layout wrote for the stage of function i
StageLines(i) ==
    {funcs[i].config[p] : p \in {q \in 1..Len(funcs[i].config) :
                                    funcs[i].config[q][1] = "layout("}}

\* the config lines of function i that the attributes of a line generate
GeneratedBy(line, i) ==
    CASE line = ShaderCNum -> {LocalSize64}
      [] line = NumXYZ -> {<<"layout(local_size_x=", "8", ", local_size_y=", "4",
                             ", local_size_z=", "2", ") in;">>}
      [] line = NumY -> {<<"layout(local_size_x=", "1", ", local_size_y=", "2",
                           ", local_size_z=", "1", ") in;">>}
      [] line = ResBlock -> {<<"in vec3 p;">>, <<"layout(location = 0) ", "out vec4 c;">>}
      [] line \in {ShaderG, GeomPoints} -> StageLines(i)
      [] OTHER -> {}

\* line a is in config at a position before one of line b
Precedes(config, a, b) ==
    \E p \in 1..Len(config) : \E q \in (p + 1)..Len(config) :
        config[p] = a /\ config[q] = b

\* the lines of l1 come before the lines of l2 in the config of function i
InSourceOrder(i, l1, l2) ==
    \A a \in GeneratedBy(src[l1], i) : \A b \in GeneratedBy(src[l2], i) :
        Precedes(funcs[i].config, a, b)

\* C28: the lines of the config of a function are in the order of the
\* attributes that generated them in the source: the layout lines of a
\* stage attribute that precedes a resourceblock or numthreads attribute
\* also precede the lines of that attribute
C28_ConfigInSourceOrder ==
    f_pc = "done" =>
        \A i \in 1..Len(funcs) : \A l1, l2 \in LinesBefore(i) :
            l1 < l2 => InSourceOrder(i, l1, l2)

====
